---- MODULE Spec2Model ----
(***************************************************************************)
(* Pyvolt: the REST request dispatcher (pyvolt/core/delta.py,              *)
(* Delta.request; pyvolt/http.py holds the same code as                    *)
(* HTTPClient.request) and the gateway session with its heartbeat monitor  *)
(* and reconnect controller (pyvolt/core/gateway.py, pyvolt/client.py).    *)
(*                                                                         *)
(* All coroutines run on one asyncio event loop: the code between two      *)
(* awaits is one atomic step, and every action below is one such step.     *)
(***************************************************************************)
EXTENDS Integers, Sequences, FiniteSets, TLC

\* ------------------------------------------------------------------------
\* Bounds of the model
\* ------------------------------------------------------------------------

\* concurrent calls of Delta.request
NReq == 2

\* retryable failures (429, 500/502/504, connection reset) the service
\* produces in one run
MaxFaults == 5

Req == 1..NReq

\* ------------------------------------------------------------------------
\* Routes and buckets (delta.py 53-72)
\* ------------------------------------------------------------------------

NoId == "None"

Route(method, path, channel_id, server_id) ==
    [method |-> method, path |-> path, channel_id |-> channel_id, server_id |-> server_id]

\* the routes the callers submit
Routes ==
    { Route("GET", "/channels/{channel_id}", "C1", NoId),
      Route("DELETE", "/channels/{channel_id}", "C1", NoId),
      Route("POST", "/channels/{channel_id}/messages", "C1", NoId) }

\* routes that differ from one another, or from one of Routes, in a major
\* parameter only
MajorRoutes ==
    { Route("GET", "/channels/{channel_id}", "C2", NoId),
      Route("GET", "/servers/{server_id}", NoId, "S1"),
      Route("GET", "/servers/{server_id}", NoId, "S2") }

NoRoute == Route("None", "None", NoId, NoId)

\* a bucket-key that is the path template alone
bucketOfPath(rt) == <<rt.path>>

\* a bucket-key that leaves the path template out
bucketOfMajorParameters(rt) == <<rt.channel_id, rt.server_id>>

\* Route.bucket: f"{self.channel_id}:{self.server_id}:{self.path}"
bucket(rt) == <<rt.channel_id, rt.server_id, rt.path>>

Buckets == { bucket(rt) : rt \in Routes \cup MajorRoutes }

\* ------------------------------------------------------------------------
\* Program constants of Delta.request
\* ------------------------------------------------------------------------

\* one attempt more
MaxTriesOneMore == 5 + 1

\* for tries in range(5)
MaxTries == 5

\* statuses the service answers with
Statuses == {200, 400, 403, 404, 429, 500, 502, 503, 504}

\* retry_after values of a 429 body, in seconds
RetryAfters == {1, 2}

\* errno values of an OSError raised by the HTTP exchange; 54 and 10054 are
\* "connection reset by peer", 111 stands for every other errno
Errnos == {54, 10054, 111}

\* 54 is not taken for a reset
ResetErrnosBut54 == {10054}

ResetErrnos == {54, 10054}

\* 503 is retried as well
RetryStatusesWith503 == {500, 502, 503, 504}

\* response.status in {500, 502, 504}
RetryStatuses == {500, 502, 504}

\* asyncio.sleep(1 + tries * 2)
BackoffDelay(t) == 1 + t * 2

\* every error status raises the base class
ErrorForBaseClassOnly(status) == "HTTPException"

\* "the usual error cases" (delta.py 257-265)
ErrorFor(status) ==
    IF status = 403 THEN "Forbidden"
    ELSE IF status = 404 THEN "NotFound"
    ELSE IF status >= 500 THEN "RevoltServerError"
    ELSE "HTTPException"

\* running out of retries always raises the server error
ExhaustedErrorAlwaysServer(status) == "RevoltServerError"

\* "We've run out of retries, raise." (delta.py 275-280)
ExhaustedError(status) ==
    IF status >= 500 THEN "RevoltServerError" ELSE "HTTPException"

\* ------------------------------------------------------------------------
\* State of the dispatcher
\* ------------------------------------------------------------------------

VARIABLES
    pc,           \* where each call of request() is suspended
    route,        \* the route of the call
    lockRef,      \* the call's local variable lock (0: none)
    locks,        \* Delta._locks: bucket -> lock object (0: no entry)
    locked,       \* asyncio.Lock._locked of each lock object
    waiters,      \* asyncio.Lock._waiters of each lock object, in FIFO order
    woken,        \* the first waiter's future has been resolved by release()
    global_over,  \* Delta._global_over, an asyncio.Event: TRUE when set
    gateq,        \* asyncio.Event._waiters of _global_over, in FIFO order
    tries,        \* the loop variable tries
    sent,         \* HTTP requests the call has issued (session.request calls)
    resp,         \* the local variable response: status of the last response, 0 for None
    result,       \* how the call ended: "ok" or the exception raised
    errno,        \* errno of the OSError the call raised (0: none)
    sleepKind,    \* which sleep the call is in: "429", "5xx", "reset"
    is_global,    \* the local variable is_global of a 429 handling
    delay,        \* the seconds passed to asyncio.sleep
    left,         \* the seconds of the sleep still to run
    unlock,       \* MaybeUnlock._unlock of the call's context manager
    faults        \* retryable failures the service may still produce

dvars == <<pc, route, lockRef, locks, locked, waiters, woken, global_over, gateq, tries,
           sent, resp, result, errno, sleepKind, is_global, delay, left, unlock, faults>>

LockIds == 1..NReq

DInit ==
    /\ pc = [r \in Req |-> "idle"]
    /\ route = [r \in Req |-> NoRoute]
    /\ lockRef = [r \in Req |-> 0]
    /\ locks = [b \in Buckets |-> 0]
    /\ locked = [l \in LockIds |-> FALSE]
    /\ waiters = [l \in LockIds |-> <<>>]
    /\ woken = [l \in LockIds |-> FALSE]
    /\ global_over = TRUE
    /\ gateq = <<>>
    /\ tries = [r \in Req |-> 0]
    /\ sent = [r \in Req |-> 0]
    /\ resp = [r \in Req |-> 0]
    /\ result = [r \in Req |-> "none"]
    /\ errno = [r \in Req |-> 0]
    /\ sleepKind = [r \in Req |-> "none"]
    /\ is_global = [r \in Req |-> FALSE]
    /\ delay = [r \in Req |-> 0]
    /\ left = [r \in Req |-> 0]
    /\ unlock = [r \in Req |-> TRUE]
    /\ faults = MaxFaults


\* ------------------------------------------------------------------------
\* Gateway: bounds and constants
\* ------------------------------------------------------------------------

\* connection attempts connect() is followed through
MaxAttempts == 2

\* KeepAliveHandler objects there may be at a time
MaxThreads == 2

\* of which so many have not ended, where connect() is followed with all it
\* may meet
MaxLive == 1

Sessions == 1..MaxAttempts
Threads == 1..MaxThreads

\* KeepAliveHandler.interval (gateway.py 122)
HeartbeatInterval == 15

\* Client.heartbeat_timeout, the default (client.py 75); it is also the
\* timeout of socket.receive (gateway.py 225, 329)
HeartbeatTimeout == 60

\* f.result(10): the seconds the thread waits for the heartbeat it has
\* submitted before it looks again (gateway.py 150)
ResultWait == 10

\* the longest silence the clocks tell apart: one interval past the timeout
MaxSilence == HeartbeatTimeout + HeartbeatInterval

\* the codes _can_handle_close lists besides 1000 (gateway.py 318)
NonRecoverable == {4004, 4010, 4011, 4012, 4013, 4014}

\* close codes the peer may send
CloseCodes == {1000, 1006} \cup NonRecoverable

\* only the policy-level codes are taken for non-recoverable
CanHandleCloseButPolicy(code) == code \notin NonRecoverable

\* every code is taken for recoverable but 1000
CanHandleCloseBut1000(code) == code # 1000

\* _can_handle_close (gateway.py 316-318), on the code it computes
CanHandleClose(code) == code \notin ({1000} \cup NonRecoverable)

\* code = self._close_code or self.socket.close_code (gateway.py 317, 347);
\* 0 stands for None
Code(cc, sc, s) == IF cc[s] # 0 THEN cc[s] ELSE sc[s]

\* an exception: its class, ConnectionClosed.code, OSError.errno
Exc(kind, code, en) == [kind |-> kind, code |-> code, errno |-> en]

NoExc == Exc("none", 0, 0)

\* ConnectionClosed(socket, code=code): the class is imported from errors.py,
\* which does not define it; it is taken to carry the code it is given
ConnectionClosed(code) == Exc("ConnectionClosed", code, 0)

\* the classes the second except clause of connect() names (client.py 238-242)
Classified == {"OSError", "HTTPException", "ConnectionClosed", "ClientError", "TimeoutError"}

\* what ws_connect may raise (delta.py ws_connect, aiohttp)
ConnectErrors == {Exc("OSError", 0, 54), Exc("OSError", 0, 111), Exc("ClientError", 0, 0)}

\* what a socket message of type ERROR may carry (gateway.py 334-335)
SocketErrors == {Exc("WebSocketError", 0, 0), Exc("OSError", 0, 54), Exc("OSError", 0, 111)}

\* a clean close is never taken for one
CleanCloseNever(e) == FALSE

\* isinstance(exc, ConnectionClosed) and exc.code == 1000 (client.py 247)
CleanClose(e) == e.kind = "ConnectionClosed" /\ e.code = 1000

\* ------------------------------------------------------------------------
\* State of the gateway and of connect()
\* ------------------------------------------------------------------------

VARIABLES
    reconnect,    \* the argument reconnect of connect()
    cpc,          \* where connect() is suspended
    cres,         \* how connect() ended: "returned" or the exception raised
    exc,          \* the exception connect() is handling or has raised
    attempts,     \* calls of DeltaWebSocket.from_client so far
    ws,           \* Client.ws: the session of a finished handshake (0: None)
    sock,         \* the socket of each session: "none", "open", "closing", "closed"
    sockCode,     \* socket.close_code of each session (0: None)
    close_code,   \* DeltaWebSocket._close_code of each session (0: None)
    keep_alive,   \* DeltaWebSocket._keep_alive: a thread (0: None)
    thr,          \* where each KeepAliveHandler thread is
    thrWs,        \* KeepAliveHandler.ws: the session of the thread
    stop_ev,      \* KeepAliveHandler._stop_ev: TRUE when set
    since_recv,   \* perf_counter() - _last_recv of each thread, in seconds
    pollWait,     \* seconds the pending socket.receive has waited
    closed,       \* Client._closed
    ucl,          \* where the application's own call of Client.close() is
    uTarget,      \* the session that call is closing (0: none)
    xTarget,      \* the session the close() inside connect() is closing
    disconnects,  \* dispatch("disconnect") calls so far
    delays,       \* backoff.delay() calls so far, each followed by its sleep
    silent        \* the receive of an authenticated session has timed out and no
                  \* frame has come since

gvars == <<reconnect, cpc, cres, exc, attempts, ws, sock, sockCode, close_code,
           keep_alive, thr, thrWs, stop_ev, since_recv, pollWait, closed, ucl,
           uTarget, xTarget, disconnects, delays, silent>>

GInit ==
    /\ reconnect = FALSE
    /\ cpc = "idle"
    /\ cres = "none"
    /\ exc = NoExc
    /\ attempts = 0
    /\ ws = 0
    /\ sock = [s \in Sessions |-> "none"]
    /\ sockCode = [s \in Sessions |-> 0]
    /\ close_code = [s \in Sessions |-> 0]
    /\ keep_alive = [s \in Sessions |-> 0]
    /\ thr = [t \in Threads |-> "none"]
    /\ thrWs = [t \in Threads |-> 0]
    /\ stop_ev = [t \in Threads |-> FALSE]
    /\ since_recv = [t \in Threads |-> 0]
    /\ pollWait = 0
    /\ closed = FALSE
    /\ ucl = "idle"
    /\ uTarget = 0
    /\ xTarget = 0
    /\ disconnects = 0
    /\ delays = 0
    /\ silent = FALSE


\* ------------------------------------------------------------------------
\* Listeners, waiters and login: bounds and constants
\* ------------------------------------------------------------------------

\* futures made by loop.create_future() in the two wait_for
MaxWaiters == 2

Futures == 1 .. MaxWaiters

\* A string is the sequence of its characters.
\* str.lower() on one character, for the letters that occur
LowerChar(c) ==
    CASE c = "R" -> "r" [] c = "E" -> "e" [] c = "A" -> "a" [] c = "D" -> "d"
      [] c = "Y" -> "y" [] c = "P" -> "p" [] c = "O" -> "o" [] c = "N" -> "n"
      [] c = "G" -> "g" [] OTHER -> c

\* str.lower()
Lower(s) == [i \in DOMAIN s |-> LowerChar(s[i])]

\* the frame types the gateway sends, as it spells them
Str_Ready == <<"R", "e", "a", "d", "y">>

Str_Pong == <<"P", "o", "n", "g">>

FrameTypes == {Str_Ready, Str_Pong}

\* spellings of the event names
Str_READY == <<"R", "E", "A", "D", "Y">>

Str_ready == <<"r", "e", "a", "d", "y">>

Str_PONG == <<"P", "O", "N", "G">>

Str_pong == <<"p", "o", "n", "g">>

\* "socket_event_type" (gateway.py 271)
Str_socket_event_type ==
    <<"s", "o", "c", "k", "e", "t", "_", "e", "v", "e", "n", "t", "_", "t", "y", "p", "e">>

\* a frame: its "type" and one more field of the message
Frames == [type : FrameTypes, data : {0, 1}]

\* the event names DeltaWebSocket.wait_for is called with
WsEvents == {Str_PONG, Str_pong, Str_READY}

\* the predicates it is called with: lambda d: True, lambda d: d["data"] > 0,
\* lambda d: 1 / d["data"] > 0
Predicates == {"any", "positive", "ratio"}

\* predicate(data): "true", "false", or "raises"
Pred(p, frame) ==
    IF p = "any" THEN "true"
    ELSE IF p = "ratio" /\ frame.data = 0 THEN "raises"
    ELSE IF frame.data > 0 THEN "true" ELSE "false"

\* the result functions it is called with: None, lambda d: d["data"],
\* lambda d: 1 // d["data"]
Results == {"None", "data", "ratio"}

\* what a future holds
Ret(kind, args, data) == [kind |-> kind, args |-> args, data |-> data]

NoRet == Ret("none", <<>>, 0)

\* ret = data if entry.result is None else entry.result(data) (gateway.py 308)
RetOf(resultFn, frame) ==
    IF resultFn = "None" THEN Ret("payload", <<frame.type>>, frame.data)
    ELSE IF resultFn = "data" THEN Ret("data", <<>>, frame.data)
    ELSE Ret("data", <<>>, 1 \div frame.data)

\* entry.result(data) raises: the division by zero
RetRaises(resultFn, frame) == resultFn = "ratio" /\ frame.data = 0

\* the event names Client.wait_for is called with
ClientEvents == {Str_Pong, Str_pong, Str_ready, Str_socket_event_type}

\* the event names Client.dispatch is called with by the application
DispatchEvents == {Str_Pong, Str_pong, Str_ready}

\* the keys of Client._listeners
Keys == {Lower(e) : e \in ClientEvents} \cup DispatchEvents

\* the positional arguments Client.dispatch is called with by the application
ArgLists == {<<>>, <<Str_pong>>, <<Str_pong, Str_ready>>}

\* the checks Client.wait_for is called with: None, lambda t, *rest: t == "pong"
Checks == {"None", "first"}

\* condition(*args): "true", "false", or "raises" (client.py 141-142, 469-473)
Check(c, args) ==
    IF c = "None" THEN "true"
    ELSE IF Len(args) = 0 THEN "raises"
    ELSE IF args[1] = Str_pong THEN "true" ELSE "false"

\* every resolved waiter is handed the tuple of the arguments
ResolvedAsTuple(args) == Ret("tuple", args, 0)

\* future.set_result(None), (args[0]) or (args) (client.py 147-152)
Resolved(args) ==
    IF Len(args) = 0 THEN Ret("None", <<>>, 0)
    ELSE IF Len(args) = 1 THEN Ret("single", <<args[1]>>, 0)
    ELSE Ret("tuple", args, 0)

\* tokens: 0 stands for None
Tokens == {1, 2}

\* statuses of the answers to the requests of static_login
LoginStatuses == Statuses \cup {401}

\* how a call of request() ends: the value is returned, or the error raised
\* and the status it carries (delta.py 224-282)
Outcome(res, status) == [res |-> res, status |-> status]

RequestOutcomes ==
    {Outcome("ok", 200)}
    \cup {Outcome(ErrorFor(s), s) : s \in LoginStatuses \ ({200, 429} \cup RetryStatuses)}
    \cup {Outcome(ExhaustedError(s), s) : s \in {429} \cup RetryStatuses}
    \cup {Outcome("OSError", 0), Outcome("CancelledError", 0)}

\* only the base class itself is caught
IsHTTPExceptionItself(res) == res = "HTTPException"

\* except HTTPException (delta.py 307): the class and its subclasses
\* (errors.py 49, 89, 96, 103)
IsHTTPException(res) ==
    res \in {"HTTPException", "Forbidden", "NotFound", "RevoltServerError"}

\* ------------------------------------------------------------------------
\* State of the listeners, the waiters and the login
\* ------------------------------------------------------------------------

VARIABLES
    dispatch_listeners,  \* DeltaWebSocket._dispatch_listeners: EventListener entries
    listeners,           \* Client._listeners: for each key, (future, condition) pairs
    future,              \* each future: its state and what it holds
    waitEvent,           \* the event argument of the Client.wait_for that made the future
    dispatched,          \* the event and arguments of the last call of Client.dispatch
    raised,              \* the exception the last received_payload ended with ("none": it returned)
    token,               \* Delta.token (0: None)
    lpc,                 \* where static_login is suspended
    ltoken,              \* the argument token of static_login
    old_token,           \* its local old_token
    tokenAtCall,         \* Delta.token when static_login was called
    lres,                \* how static_login ended
    lstatus              \* the status the error it raised carries

avars == <<dispatch_listeners, listeners, future, waitEvent, dispatched, raised, token, lpc, ltoken,
           old_token, tokenAtCall, lres, lstatus>>

\* no listener, no waiter, no login (gateway.py 190, client.py 73, delta.py 139)
AInit ==
    /\ dispatch_listeners = <<>>
    /\ listeners = [k \in Keys |-> <<>>]
    /\ future = [f \in Futures |-> [st |-> "none", ret |-> NoRet]]
    /\ waitEvent = [f \in Futures |-> <<>>]
    /\ dispatched = [event |-> <<>>, args |-> <<>>]
    /\ raised = "none"
    /\ token = 0
    /\ lpc = "idle"
    /\ ltoken = 0
    /\ old_token = 0
    /\ tokenAtCall = 0
    /\ lres = "none"
    /\ lstatus = 0


\* ------------------------------------------------------------------------
\* GatewayRatelimiter and send_payload: bounds and state
\* ------------------------------------------------------------------------

\* GatewayRatelimiter(count, per): the sends of one window and its length in
\* seconds; the defaults are 110 and 60.0 (gateway.py 76), the arithmetic of
\* get_delay is the same for every count and per
RateMax == 2

RatePer == 3

\* concurrent callers of send_payload
NSenders == 2

Senders == 1 .. NSenders

\* what is sent: a frame of the application (BeginTyping, EndTyping,
\* gateway.py 378-392) or the Ping of send_heartbeat (gateway.py 370-376)
SendKinds == {"frame", "ping"}

\* "current > self.window + self.per", on the time since self.window
WindowOver(since) == since > RatePer

VARIABLES
    remaining,     \* GatewayRatelimiter.remaining
    sinceWindow,   \* time.time() - GatewayRatelimiter.window, up to RatePer + 1
    rl_locked,     \* GatewayRatelimiter.lock is held
    rl_waiters,    \* the senders waiting for it, in order
    rl_woken,      \* its first waiter has been woken by release()
    spc,           \* where each call of send_payload is suspended
    skind,         \* what it sends
    sleft,         \* seconds left of its asyncio.sleep(delta)
    sentLog        \* the frames transmitted less than RatePer seconds ago

rvars == <<remaining, sinceWindow, rl_locked, rl_waiters, rl_woken, spc, skind, sleft,
           sentLog>>

\* GatewayRatelimiter.__init__ (gateway.py 76-82): window = 0.0 is long past
RInit ==
    /\ remaining = RateMax
    /\ sinceWindow = RatePer + 1
    /\ rl_locked = FALSE
    /\ rl_waiters = <<>>
    /\ rl_woken = FALSE
    /\ spc = [s \in Senders |-> "idle"]
    /\ skind = [s \in Senders |-> "none"]
    /\ sleft = [s \in Senders |-> 0]
    /\ sentLog = <<>>

\* ------------------------------------------------------------------------
\* The gateway URL of from_client: bounds and state
\* ------------------------------------------------------------------------

\* the longest gateway URL, in parts
MaxUrlLen == 3

\* the parts a URL is written with
UrlParts == {"wss://", "ws.revolt.chat", "/gateway"}

\* the gateway URLs the capability info may name: info["ws"]
GatewayUrls == UNION { [1..n -> UrlParts] : n \in 1..MaxUrlLen }

\* a string that has not been given a value
NoUrl == <<>>

VARIABLES
    msgpack_import,      \* "import msgpack" of gateway.py: "none" before, then "ok" or "ImportError"
    use_msgpack,         \* the module's use_msgpack
    info_ws,             \* Delta.info["ws"] (NoUrl: info is None)
    url                  \* the url from_client opens the socket to (NoUrl: none yet)

uvars == <<msgpack_import, use_msgpack, info_ws, url>>

\* gateway.py not imported, no capability info (delta.py 140)
UInit ==
    /\ msgpack_import = "none"
    /\ use_msgpack = FALSE
    /\ info_ws = NoUrl
    /\ url = NoUrl

\* ------------------------------------------------------------------------
\* The bucket table and asyncio.Lock
\* ------------------------------------------------------------------------

\* a lock object no call refers to: what asyncio.Lock() makes (delta.py 179)
FreshLock == CHOOSE l \in LockIds : \A q \in Req : lockRef[q] # l

\* the table is not consulted: every call makes its own lock object
LockForAlwaysNew(b) == FreshLock

\* lock = self._locks.get(bucket); if lock is None: lock = asyncio.Lock()
\* (delta.py 177-181)
LockFor(b) == IF locks[b] # 0 THEN locks[b] ELSE FreshLock

\* asyncio.Lock.acquire returns at once when the lock is free and nobody waits
CanTake(l) == ~locked[l] /\ waiters[l] = <<>>

RemoveFrom(seq, r) == SelectSeq(seq, LAMBDA x : x # r)

\* asyncio.Event.set(): every waiter's future is resolved
GateSet(pcf) == [q \in Req |-> IF pcf[q] = "gate" THEN "gate_woken" ELSE pcf[q]]

\* the call is inside "with MaybeUnlock(lock)" (delta.py 212-282)
InWith(r) == pc[r] \in {"http", "sleep"}

\* the lock is released on a return or raise out of the HTTP exchange only,
\* not when the block is left from a sleep
ReleasesFromExchangeOnly(r) == pc[r] = "http" /\ unlock[r]

\* MaybeUnlock.__exit__ (delta.py 86-93): release unless deferred
Releases(r) == InWith(r) /\ unlock[r]

\* await lock.acquire(), then the first statement of the attempt loop up to
\* the HTTP request (delta.py 211-221); pcf is pc after the caller's changes
Acquire(r, l, pcf) ==
    IF CanTake(l)
    THEN /\ locked' = [locked EXCEPT ![l] = TRUE]
         /\ waiters' = waiters
         /\ pc' = [pcf EXCEPT ![r] = "http"]
         /\ sent' = [sent EXCEPT ![r] = 1]
    ELSE /\ locked' = locked
         /\ waiters' = [waiters EXCEPT ![l] = Append(@, r)]
         /\ pc' = [pcf EXCEPT ![r] = "lock"]
         /\ sent' = sent

\* The call ends with res: the with block is left (the lock released unless
\* deferred, the first waiter woken), a pending acquire is withdrawn, and the
\* call's frame is gone: its reference to the lock object is dropped, and the
\* weak table forgets a lock object nobody refers to (delta.py 128, 86-93).
\* status is the response status the raised HTTPException carries (0: none).
Exit(r, res, status, pcf) ==
    LET l == lockRef[r]
        others == \E q \in Req \ {r} : lockRef[q] = l
        rest == RemoveFrom(waiters[l], r)
        headCancelled == pc[r] = "lock" /\ Head(waiters[l]) = r /\ woken[l]
    IN  /\ pc' = [pcf EXCEPT ![r] = "done"]
        /\ result' = [result EXCEPT ![r] = res]
        /\ resp' = [resp EXCEPT ![r] = status]
        /\ locked' = [locked EXCEPT ![l] = IF Releases(r) \/ ~others THEN FALSE ELSE @]
        /\ waiters' = [waiters EXCEPT ![l] = rest]
        /\ woken' = [woken EXCEPT ![l] =
                        IF Releases(r) THEN rest # <<>>
                        ELSE IF headCancelled THEN rest # <<>> /\ ~locked[l]
                        ELSE @]
        /\ lockRef' = [lockRef EXCEPT ![r] = 0]
        /\ locks' = IF ~others /\ locks[bucket(route[r])] = l
                    THEN [locks EXCEPT ![bucket(route[r])] = 0]
                    ELSE locks
        /\ route' = [route EXCEPT ![r] = NoRoute]
        /\ tries' = [tries EXCEPT ![r] = 0]
        /\ sleepKind' = [sleepKind EXCEPT ![r] = "none"]
        /\ is_global' = [is_global EXCEPT ![r] = FALSE]
        /\ delay' = [delay EXCEPT ![r] = 0]
        /\ left' = [left EXCEPT ![r] = 0]
        /\ gateq' = RemoveFrom(gateq, r)

\* ------------------------------------------------------------------------
\* Delta.request (delta.py 166-282)
\* ------------------------------------------------------------------------

\* request(route) is called: the lock is looked up or made, then the call
\* waits on the gate when it is closed, else goes on to the lock
\* (delta.py 173-211)
Start(r, rt) ==
    /\ pc[r] = "idle"
    /\ LET b == bucket(rt)
           l == LockFor(b)
       IN  /\ route' = [route EXCEPT ![r] = rt]
           /\ lockRef' = [lockRef EXCEPT ![r] = l]
           /\ locks' = [locks EXCEPT ![b] = l]
           /\ IF ~global_over
              THEN /\ pc' = [pc EXCEPT ![r] = "gate"]
                   /\ gateq' = Append(gateq, r)
                   /\ UNCHANGED <<locked, waiters, sent>>
              ELSE Acquire(r, l, pc) /\ UNCHANGED gateq
    /\ UNCHANGED <<woken, global_over, tries, resp, result, errno, sleepKind,
                   is_global, delay, left, unlock, faults>>
    /\ UNCHANGED <<gvars, avars, rvars, uvars>>

\* await self._global_over.wait() returns (delta.py 207), then the lock; the
\* loop resumes the waiters of one set() in the order they began to wait
GateResume(r) ==
    /\ pc[r] = "gate_woken"
    /\ Head(gateq) = r
    /\ gateq' = Tail(gateq)
    /\ Acquire(r, lockRef[r], pc)
    /\ UNCHANGED <<route, lockRef, locks, woken, global_over, tries, resp, result,
                   errno, sleepKind, is_global, delay, left, unlock, faults>>
    /\ UNCHANGED <<gvars, avars, rvars, uvars>>

\* await lock.acquire() returns for the first waiter, woken by release()
\* (delta.py 211), and the first attempt is sent
LockResume(r) ==
    /\ pc[r] = "lock"
    /\ LET l == lockRef[r]
       IN  /\ woken[l]
           /\ Head(waiters[l]) = r
           /\ locked' = [locked EXCEPT ![l] = TRUE]
           /\ waiters' = [waiters EXCEPT ![l] = Tail(@)]
           /\ woken' = [woken EXCEPT ![l] = FALSE]
    /\ pc' = [pc EXCEPT ![r] = "http"]
    /\ sent' = [sent EXCEPT ![r] = 1]
    /\ UNCHANGED <<route, lockRef, locks, global_over, gateq, tries, resp, result,
                   errno, sleepKind, is_global, delay, left, unlock, faults>>
    /\ UNCHANGED <<gvars, avars, rvars, uvars>>

\* the call goes to sleep inside the attempt loop: await asyncio.sleep(d)
Sleep(r, status, kind, glob, d) ==
    /\ resp' = [resp EXCEPT ![r] = status]
    /\ faults > 0
    /\ faults' = faults - 1
    /\ pc' = [pc EXCEPT ![r] = "sleep"]
    /\ sleepKind' = [sleepKind EXCEPT ![r] = kind]
    /\ is_global' = [is_global EXCEPT ![r] = glob]
    /\ delay' = [delay EXCEPT ![r] = d]
    /\ left' = [left EXCEPT ![r] = d]
    /\ UNCHANGED <<route, tries, result, locked, waiters, woken, lockRef, locks, gateq>>

\* the HTTP exchange ends with a response other than 429 (delta.py 221-227,
\* 252-265)
Respond(r, status) ==
    /\ pc[r] = "http"
    /\ status # 429
    /\ IF 300 > status /\ status >= 200
       THEN Exit(r, "ok", status, pc) /\ UNCHANGED faults
       ELSE IF status \in RetryStatuses
       THEN Sleep(r, status, "5xx", FALSE, BackoffDelay(tries[r]))
       ELSE Exit(r, ErrorFor(status), status, pc) /\ UNCHANGED faults
    /\ UNCHANGED <<global_over, sent, errno, unlock>>
    /\ UNCHANGED <<gvars, avars, rvars, uvars>>

\* every 429 is slept on and retried, whatever its framing
RateLimitedAlwaysRetried(r, framed, retry_after, glob) ==
    /\ pc[r] = "http"
    /\ Sleep(r, 429, "429", glob, retry_after)
    /\ global_over' = IF glob THEN FALSE ELSE global_over
    /\ UNCHANGED <<sent, errno, unlock>>
    /\ UNCHANGED <<gvars, avars, rvars, uvars>>

\* the HTTP exchange ends with a 429 (delta.py 229-250); framed: the response
\* has a Via header and a JSON body, which holds retry_after and global
RateLimited(r, framed, retry_after, glob) ==
    /\ pc[r] = "http"
    /\ IF ~framed
       THEN Exit(r, "HTTPException", 429, pc) /\ UNCHANGED <<global_over, faults>>
       ELSE /\ Sleep(r, 429, "429", glob, retry_after)
            /\ global_over' = IF glob THEN FALSE ELSE global_over
    /\ UNCHANGED <<sent, errno, unlock>>
    /\ UNCHANGED <<gvars, avars, rvars, uvars>>

\* one retry fewer
RetryResetOneFewer(t, e) == t < 3 /\ e \in ResetErrnos

\* if tries < 4 and e.errno in (54, 10054) (delta.py 270)
RetryReset(t, e) == t < 4 /\ e \in ResetErrnos

\* the HTTP exchange raises OSError with errno e (delta.py 268-273)
OsError(r, e) ==
    /\ pc[r] = "http"
    /\ IF RetryReset(tries[r], e)
       THEN Sleep(r, resp[r], "reset", FALSE, BackoffDelay(tries[r])) /\ UNCHANGED errno
       ELSE /\ Exit(r, "OSError", 0, pc)
            /\ errno' = [errno EXCEPT ![r] = e]
            /\ UNCHANGED faults
    /\ UNCHANGED <<global_over, sent, unlock>>
    /\ UNCHANGED <<gvars, avars, rvars, uvars>>

\* one second passes for every sleeping call
Tick ==
    /\ \E r \in Req : left[r] > 0
    /\ left' = [r \in Req |-> IF left[r] > 0 THEN left[r] - 1 ELSE 0]
    /\ UNCHANGED <<pc, route, lockRef, locks, locked, waiters, woken, global_over,
                   gateq, tries, sent, resp, result, errno, sleepKind, is_global,
                   delay, unlock, faults>>
    /\ UNCHANGED <<gvars, avars, rvars, uvars>>

\* asyncio.sleep returns: the gate is set again after a global 429, then
\* "continue": the next attempt is sent, or the loop is over and the call
\* raises for its last response (delta.py 243-250, 254-255, 271-282)
Wake(r) ==
    /\ pc[r] = "sleep"
    /\ left[r] = 0
    /\ LET reopen == sleepKind[r] = "429" /\ is_global[r]
           pcf == IF reopen THEN GateSet(pc) ELSE pc
       IN  /\ global_over' = IF reopen THEN TRUE ELSE global_over
           /\ IF tries[r] + 1 < MaxTries
              THEN /\ tries' = [tries EXCEPT ![r] = @ + 1]
                   /\ pc' = [pcf EXCEPT ![r] = "http"]
                   /\ sent' = [sent EXCEPT ![r] = @ + 1]
                   /\ sleepKind' = [sleepKind EXCEPT ![r] = "none"]
                   /\ is_global' = [is_global EXCEPT ![r] = FALSE]
                   /\ delay' = [delay EXCEPT ![r] = 0]
                   /\ left' = left
                   /\ UNCHANGED <<route, resp, result, locked, waiters, woken, lockRef,
                                   locks, gateq>>
              ELSE /\ Exit(r, IF resp[r] # 0 THEN ExhaustedError(resp[r])
                              ELSE "RuntimeError", resp[r], pcf)
                   /\ UNCHANGED sent
    /\ UNCHANGED <<errno, unlock, faults>>
    /\ UNCHANGED <<gvars, avars, rvars, uvars>>

\* the task running the call is cancelled: CancelledError is raised at the
\* await the call is suspended in
Cancel(r) ==
    /\ pc[r] \in {"gate", "gate_woken", "lock", "http", "sleep"}
    /\ Exit(r, "CancelledError", 0, pc)
    /\ UNCHANGED <<global_over, sent, errno, unlock, faults>>
    /\ UNCHANGED <<gvars, avars, rvars, uvars>>

\* the awaited call is over: its caller has the result or the error, and the
\* program goes on, possibly to its next call (delta.py 166-282)
Returned(r) ==
    /\ pc[r] = "done"
    /\ pc' = [pc EXCEPT ![r] = "idle"]
    /\ result' = [result EXCEPT ![r] = "none"]
    /\ resp' = [resp EXCEPT ![r] = 0]
    /\ sent' = [sent EXCEPT ![r] = 0]
    /\ errno' = [errno EXCEPT ![r] = 0]
    /\ UNCHANGED <<route, lockRef, locks, locked, waiters, woken, global_over,
                   gateq, tries, sleepKind, is_global, delay, left, unlock, faults>>
    /\ UNCHANGED <<gvars, avars, rvars, uvars>>

DNext ==
    \/ \E r \in Req, rt \in Routes : Start(r, rt)
    \/ \E r \in Req : GateResume(r)
    \/ \E r \in Req : LockResume(r)
    \/ \E r \in Req, status \in Statuses : Respond(r, status)
    \/ \E r \in Req, framed \in BOOLEAN, retry_after \in RetryAfters, glob \in BOOLEAN :
          RateLimited(r, framed, retry_after, glob)
    \/ \E r \in Req, e \in Errnos : OsError(r, e)
    \/ Tick
    \/ \E r \in Req : Wake(r)
    \/ \E r \in Req : Cancel(r)
    \/ \E r \in Req : Returned(r)


\* calls answered 200 or a framed global 429, and cancelled at any await
GateNext ==
    \/ \E r \in Req, rt \in Routes : Start(r, rt)
    \/ \E r \in Req : GateResume(r)
    \/ \E r \in Req : LockResume(r)
    \/ \E r \in Req : Respond(r, 200)
    \/ \E r \in Req, retry_after \in RetryAfters : RateLimited(r, TRUE, retry_after, TRUE)
    \/ Tick
    \/ \E r \in Req : Wake(r)
    \/ \E r \in Req : Cancel(r)
    \/ \E r \in Req : Returned(r)

\* the exchange of call r ends: the service answers every request
Answered(r) ==
    \/ Respond(r, 200)
    \/ \E retry_after \in RetryAfters : RateLimited(r, TRUE, retry_after, TRUE)

\* calls to routes of every major parameter, each answered 200
BucketNext ==
    \/ \E r \in Req, rt \in Routes \cup MajorRoutes : Start(r, rt)
    \/ \E r \in Req : LockResume(r)
    \/ \E r \in Req : Respond(r, 200)
    \/ \E r \in Req : Cancel(r)
    \/ \E r \in Req : Returned(r)


\* ------------------------------------------------------------------------
\* Gateway: DeltaWebSocket.close, Client.close, the handlers of connect()
\* ------------------------------------------------------------------------

Min(a, b) == IF a < b THEN a ELSE b

\* self._keep_alive.stop() when there is one (gateway.py 341-342, 395-396)
StopKeepAlive(ka, se, s) == IF ka[s] # 0 THEN [se EXCEPT ![ka[s]] = TRUE] ELSE se

\* DeltaWebSocket.close(code) up to its await of socket.close (gateway.py
\* 394-400), on the fields as they are after the caller's changes
WsClose(ka, se, sk, cc, s, code) ==
    [ka |-> [ka EXCEPT ![s] = 0],
     se |-> StopKeepAlive(ka, se, s),
     cc |-> [cc EXCEPT ![s] = code],
     sk |-> [sk EXCEPT ![s] = IF @ = "open" THEN "closing" ELSE @],
     target |-> s]

\* Client.close() up to its first await (client.py 266-280); target is the
\* session whose socket.close it then awaits (0: none). ws.open is
\* "not socket.closed" (gateway.py 200-202).
ClientClose(ka, se, sk) ==
    IF ~closed /\ ws # 0 /\ sk[ws] # "closed"
    THEN WsClose(ka, se, sk, close_code, ws, 1000)
    ELSE [ka |-> ka, se |-> se, cc |-> close_code, sk |-> sk, target |-> 0]

\* the fields a step of connect() may change
Ctl(p, r, a, cl, ka, se, cc, sk, xt) ==
    /\ cpc' = p
    /\ cres' = r
    /\ attempts' = a
    /\ closed' = cl
    /\ keep_alive' = ka
    /\ stop_ev' = se
    /\ close_code' = cc
    /\ sock' = sk
    /\ xTarget' = xt
    /\ pollWait' = 0
    /\ silent' = FALSE

\* "while not self.is_closed()" and the call of from_client (client.py 229-232)
LoopTop(ka, se, sk) ==
    IF closed
    THEN Ctl("done", "returned", attempts, closed, ka, se, close_code, sk, 0)
    ELSE Ctl("connecting", cres, attempts + 1, closed, ka, se, close_code, sk, 0)

\* what follows "await self.close()" in the handler (client.py 246-250, 260-261)
AfterClose(e) == IF CleanClose(e) THEN "returned" ELSE e.kind

\* "await self.close()" inside the handler, and what follows when close()
\* returns without suspending
CloseThen(e, ka, se, sk) ==
    LET c == ClientClose(ka, se, sk)
    IN  IF c.target # 0
        THEN Ctl("x_close", cres, attempts, TRUE, c.ka, c.se, c.cc, c.sk, c.target)
        ELSE Ctl("done", AfterClose(e), attempts, TRUE, c.ka, c.se, c.cc, c.sk, 0)

\* The except clauses of connect() (client.py 235-264) for exception e raised
\* out of from_client or poll_event; ka, se, sk are _keep_alive, _stop_ev and
\* the sockets as the raising code left them.
Handle(e, ka, se, sk) ==
    /\ IF e.kind = "ReconnectWebSocket"
       THEN /\ disconnects' = disconnects + 1
            /\ LoopTop(ka, se, sk)
       ELSE IF e.kind \in Classified
       THEN /\ disconnects' = disconnects + 1
            /\ IF ~reconnect
               THEN CloseThen(e, ka, se, sk)
               ELSE IF closed
               THEN Ctl("done", "returned", attempts, closed, ka, se, close_code, sk, 0)
               ELSE IF e.kind = "OSError" /\ e.errno \in ResetErrnos
               THEN LoopTop(ka, se, sk)
               ELSE IF e.kind = "ConnectionClosed" /\ e.code # 1000
               THEN CloseThen(e, ka, se, sk)
               ELSE Ctl("backoff", cres, attempts, closed, ka, se, close_code, sk, 0)
       ELSE /\ disconnects' = disconnects
            /\ Ctl("done", e.kind, attempts, closed, ka, se, close_code, sk, 0)
    /\ exc' = IF cpc' \in {"x_close", "done"} THEN e ELSE NoExc
    /\ delays' = IF cpc' = "backoff" THEN delays + 1 ELSE delays

\* connect() is in socket.receive of the session of this attempt
Receiving == cpc \in {"handshake", "poll"}

\* poll_event returns normally: from_client returns the session, which
\* becomes Client.ws, and the loop polls again (gateway.py 229-232, client.py
\* 232-234)
Polled(sl) ==
    /\ cpc' = "poll"
    /\ ws' = IF cpc \in {"handshake", "hs_beat"} THEN attempts ELSE ws
    /\ pollWait' = 0
    /\ silent' = sl

\* The thread objects in T are gone: ended, or made and never started. A
\* _keep_alive that still names such a thread is written as None: stop() and
\* tick() on it change nothing the code reads again.
Gone(f, T, z) == [t \in Threads |-> IF t \in T THEN z ELSE f[t]]

Unref(ka, T) == [s \in Sessions |-> IF ka[s] \in T THEN 0 ELSE ka[s]]

\* the thread received_payload made and has not started yet
Unstarted == {t \in Threads : thr[t] = "created"}

\* a KeepAliveHandler that has not been made yet
NewThread == CHOOSE t \in Threads : thr[t] = "none" /\ \A u \in Threads : thr[u] = "none" => t <= u

\* ------------------------------------------------------------------------
\* Gateway: Client.connect and what it awaits
\* ------------------------------------------------------------------------

\* connect(reconnect=rc) is called (client.py 206, 228-232)
Connect(rc) ==
    /\ cpc = "idle"
    /\ reconnect' = rc
    /\ LoopTop(keep_alive, stop_ev, sock)
    /\ UNCHANGED <<exc, ws, sockCode, thr, thrWs, since_recv, ucl, uTarget, disconnects, delays>>
    /\ UNCHANGED <<dvars, avars, rvars, uvars>>

\* ws_connect returns a socket; authenticate() starts to send (gateway.py
\* 214-227)
ConnectOk ==
    /\ cpc = "connecting"
    /\ attempts <= MaxAttempts
    /\ cpc' = "auth"
    /\ sock' = [sock EXCEPT ![attempts] = "open"]
    /\ UNCHANGED <<reconnect, cres, exc, attempts, ws, sockCode, close_code, keep_alive,
                   thr, thrWs, stop_ev, since_recv, pollWait, closed, ucl, uTarget,
                   xTarget, disconnects, delays, silent>>
    /\ UNCHANGED <<dvars, avars, rvars, uvars>>

\* ws_connect raises (gateway.py 214)
ConnectFail(e) ==
    /\ cpc = "connecting"
    /\ attempts <= MaxAttempts
    /\ Handle(e, keep_alive, stop_ev, sock)
    /\ UNCHANGED <<reconnect, ws, sockCode, thr, thrWs, since_recv, ucl, uTarget>>
    /\ UNCHANGED <<dvars, avars, rvars, uvars>>

\* the Authenticate frame is sent; poll_event starts to receive (gateway.py
\* 227-230, 329)
AuthSent ==
    /\ cpc = "auth"
    /\ cpc' = "handshake"
    /\ pollWait' = 0
    /\ UNCHANGED <<reconnect, cres, exc, attempts, ws, sock, sockCode, close_code,
                   keep_alive, thr, thrWs, stop_ev, since_recv, closed, ucl, uTarget,
                   xTarget, disconnects, delays, silent>>
    /\ UNCHANGED <<dvars, avars, rvars, uvars>>

\* asyncio.wait_for(coro, timeout=60.0) gives up on from_client (client.py 232)
HandshakeTimeout ==
    /\ cpc \in {"connecting", "auth", "handshake", "hs_beat"}
    /\ attempts <= MaxAttempts
    /\ Handle(Exc("TimeoutError", 0, 0), Unref(keep_alive, Unstarted),
              Gone(stop_ev, Unstarted, FALSE), sock)
    /\ thr' = Gone(thr, Unstarted, "none")
    /\ thrWs' = Gone(thrWs, Unstarted, 0)
    /\ since_recv' = Gone(since_recv, Unstarted, 0)
    /\ UNCHANGED <<reconnect, ws, sockCode, ucl, uTarget>>
    /\ UNCHANGED <<dvars, avars, rvars, uvars>>

\* socket.receive delivers a frame and received_payload handles it (gateway.py
\* 329-333, 268-314): tick; an Error frame is raised with "raise data[error]",
\* whose operand is no exception, so that TypeError is raised; Authenticated
\* makes a KeepAliveHandler and starts to send a heartbeat; any other frame
\* goes to the handlers.
RecvFrame(kind) ==
    /\ Receiving
    /\ sock[attempts] = "open"
    /\ LET s == attempts
           ticked == IF keep_alive[s] # 0
                     THEN [since_recv EXCEPT ![keep_alive[s]] = 0]
                     ELSE since_recv
       IN  CASE kind = "error" ->
                  /\ since_recv' = ticked
                  /\ Handle(Exc("TypeError", 0, 0), keep_alive, stop_ev, sock)
                  /\ UNCHANGED <<ws, thr, thrWs>>
             [] kind = "authenticated" ->
                  /\ \E t \in Threads : thr[t] = "none"
                  /\ keep_alive' = [keep_alive EXCEPT ![s] = NewThread]
                  /\ thr' = [thr EXCEPT ![NewThread] = "created"]
                  /\ thrWs' = [thrWs EXCEPT ![NewThread] = s]
                  /\ since_recv' = [ticked EXCEPT ![NewThread] = 0]
                  /\ cpc' = IF cpc = "handshake" THEN "hs_beat" ELSE "beat"
                  /\ pollWait' = 0
                  /\ silent' = FALSE
                  /\ UNCHANGED <<cres, exc, attempts, ws, sock, close_code, stop_ev,
                                 closed, xTarget, disconnects, delays>>
             [] kind = "event" ->
                  /\ since_recv' = ticked
                  /\ Polled(FALSE)
                  /\ UNCHANGED <<cres, exc, attempts, sock, close_code, keep_alive,
                                 thr, thrWs, stop_ev, closed, xTarget, disconnects, delays>>
    /\ UNCHANGED <<reconnect, sockCode, ucl, uTarget>>
    /\ UNCHANGED <<dvars, avars, rvars, uvars>>

\* the heartbeat received_payload sends at once is sent and the thread is
\* started (gateway.py 281-285)
BeatSent ==
    /\ cpc \in {"hs_beat", "beat"}
    /\ sock[attempts] = "open"
    /\ thr' = [thr EXCEPT ![keep_alive[attempts]] = "wait"]
    /\ Polled(FALSE)
    /\ UNCHANGED <<reconnect, cres, exc, attempts, sock, sockCode, close_code,
                   keep_alive, thrWs, stop_ev, since_recv, closed, ucl, uTarget,
                   xTarget, disconnects, delays>>
    /\ UNCHANGED <<dvars, avars, rvars, uvars>>

\* that heartbeat cannot be sent, the socket being closed from this side
\* meanwhile: aiohttp raises ConnectionResetError, an OSError without errno,
\* which send_payload does not catch (gateway.py 355-360, 281-283)
BeatFailed ==
    /\ cpc \in {"hs_beat", "beat"}
    /\ sock[attempts] # "open"
    /\ Handle(Exc("OSError", 0, 0), Unref(keep_alive, Unstarted),
              Gone(stop_ev, Unstarted, FALSE), sock)
    /\ thr' = Gone(thr, Unstarted, "none")
    /\ thrWs' = Gone(thrWs, Unstarted, 0)
    /\ since_recv' = Gone(since_recv, Unstarted, 0)
    /\ UNCHANGED <<reconnect, ws, sockCode, ucl, uTarget>>
    /\ UNCHANGED <<dvars, avars, rvars, uvars>>

\* poll_event meets a close (gateway.py 336-351): the keep-alive is stopped
\* and the code decides between ReconnectWebSocket and ConnectionClosed
Closure(sc) ==
    LET s == attempts
        code == Code(close_code, sc, s)
    IN  /\ sockCode' = sc
        /\ Handle(IF CanHandleClose(code)
                  THEN Exc("ReconnectWebSocket", 0, 0)
                  ELSE ConnectionClosed(code),
                  [keep_alive EXCEPT ![s] = 0],
                  StopKeepAlive(keep_alive, stop_ev, s), sock)

\* socket.receive delivers the peer's close frame with its code
RecvPeerClose(code) ==
    /\ Receiving
    /\ sock[attempts] = "open"
    /\ Closure([sockCode EXCEPT ![attempts] = code])
    /\ UNCHANGED <<reconnect, ws, thr, thrWs, since_recv, ucl, uTarget>>
    /\ UNCHANGED <<dvars, avars, rvars, uvars>>

\* socket.receive delivers CLOSING or CLOSED: the socket is being closed, or
\* has been closed, from this side
RecvLocalClose ==
    /\ Receiving
    /\ sock[attempts] \in {"closing", "closed"}
    /\ Closure(sockCode)
    /\ UNCHANGED <<reconnect, ws, thr, thrWs, since_recv, ucl, uTarget>>
    /\ UNCHANGED <<dvars, avars, rvars, uvars>>

\* socket.receive delivers a message of type ERROR, having closed the socket:
\* poll_event raises the exception it carries (gateway.py 334-335)
RecvSocketError(e) ==
    /\ Receiving
    /\ sock[attempts] = "open"
    /\ sockCode' = [sockCode EXCEPT ![attempts] = 1006]
    /\ Handle(e, keep_alive, stop_ev, [sock EXCEPT ![attempts] = "closed"])
    /\ UNCHANGED <<reconnect, ws, thr, thrWs, since_recv, ucl, uTarget>>
    /\ UNCHANGED <<dvars, avars, rvars, uvars>>

\* socket.receive times out: the keep-alive is stopped and poll_event returns
\* (gateway.py 329, 338-345)
PollTimeout ==
    /\ Receiving
    /\ sock[attempts] = "open"
    /\ pollWait >= HeartbeatTimeout
    /\ keep_alive' = [keep_alive EXCEPT ![attempts] = 0]
    /\ stop_ev' = StopKeepAlive(keep_alive, stop_ev, attempts)
    /\ Polled(silent \/ (cpc = "poll" /\ keep_alive[attempts] # 0))
    /\ UNCHANGED <<reconnect, cres, exc, attempts, sock, sockCode, close_code, thr,
                   thrWs, since_recv, closed, ucl, uTarget, xTarget, disconnects, delays>>
    /\ UNCHANGED <<dvars, avars, rvars, uvars>>

\* the close() awaited inside the handler is over (client.py 246-250, 260-261)
HandlerCloseDone ==
    /\ cpc = "x_close"
    /\ sock[xTarget] = "closed"
    /\ cpc' = "done"
    /\ cres' = AfterClose(exc)
    /\ xTarget' = 0
    /\ UNCHANGED <<reconnect, exc, attempts, ws, sock, sockCode, close_code, keep_alive,
                   thr, thrWs, stop_ev, since_recv, pollWait, closed, ucl, uTarget, disconnects, delays, silent>>
    /\ UNCHANGED <<dvars, avars, rvars, uvars>>

\* asyncio.sleep(retry) returns and the loop goes round (client.py 263-264, 229)
BackoffDone ==
    /\ cpc = "backoff"
    /\ LoopTop(keep_alive, stop_ev, sock)
    /\ UNCHANGED <<reconnect, exc, ws, sockCode, thr, thrWs, since_recv, ucl, uTarget, disconnects, delays>>
    /\ UNCHANGED <<dvars, avars, rvars, uvars>>

\* ------------------------------------------------------------------------
\* Gateway: KeepAliveHandler.run, Client.close called by the application, time
\* ------------------------------------------------------------------------

\* self._last_recv + self.heartbeat_timeout < time.perf_counter() (gateway.py
\* 132)
Stale(t) == since_recv[t] > HeartbeatTimeout

\* run() returns: the thread has ended
Ended(t) ==
    /\ thr' = Gone(thr, {t}, "none")
    /\ thrWs' = Gone(thrWs, {t}, 0)
    /\ stop_ev' = Gone(stop_ev, {t}, FALSE)
    /\ since_recv' = Gone(since_recv, {t}, 0)
    /\ keep_alive' = Unref(keep_alive, {t})

\* _stop_ev.wait(interval) returns (gateway.py 131-146): the thread ends when
\* the event is set; else it submits ws.close() when the last frame is older
\* than the timeout, and a heartbeat otherwise
ThreadCheck(t) ==
    /\ thr[t] = "wait"
    /\ IF stop_ev[t]
       THEN Ended(t)
       ELSE /\ thr' = [thr EXCEPT ![t] = IF Stale(t) THEN "close" ELSE "beat"]
            /\ UNCHANGED <<keep_alive, thrWs, stop_ev, since_recv>>
    /\ UNCHANGED <<reconnect, cpc, cres, exc, attempts, ws, sock, sockCode, close_code,
                   pollWait, closed, ucl, uTarget, xTarget, disconnects, delays, silent>>
    /\ UNCHANGED <<dvars, avars, rvars, uvars>>

\* the loop runs the ws.close() the thread submitted, with the default code
\* 4000, up to its await of socket.close (gateway.py 133-134, 394-400)
ThreadClose(t) ==
    /\ thr[t] = "close"
    /\ LET c == WsClose(keep_alive, stop_ev, sock, close_code, thrWs[t], 4000)
       IN  /\ keep_alive' = c.ka
           /\ stop_ev' = c.se
           /\ close_code' = c.cc
           /\ sock' = c.sk
    /\ thr' = [thr EXCEPT ![t] = "closing"]
    /\ UNCHANGED <<reconnect, cpc, cres, exc, attempts, ws, sockCode, thrWs, since_recv,
                   pollWait, closed, ucl, uTarget, xTarget, disconnects, delays, silent>>
    /\ UNCHANGED <<dvars, avars, rvars, uvars>>

\* f.result() returns to the thread: stop() and return (gateway.py 136-142)
ThreadCloseDone(t) ==
    /\ thr[t] = "closing"
    /\ sock[thrWs[t]] = "closed"
    /\ Ended(t)
    /\ UNCHANGED <<reconnect, cpc, cres, exc, attempts, ws, sock, sockCode, close_code,
                   pollWait, closed, ucl, uTarget, xTarget, disconnects, delays, silent>>
    /\ UNCHANGED <<dvars, avars, rvars, uvars>>

\* the loop runs the send_heartbeat() the thread submitted and the thread
\* gets its result (gateway.py 144-157): sent, or ConnectionResetError on a
\* socket closed from this side, upon which the thread stops itself
ThreadBeat(t) ==
    /\ thr[t] = "beat"
    /\ thr' = [thr EXCEPT ![t] = "wait"]
    /\ stop_ev' = [stop_ev EXCEPT ![t] = @ \/ sock[thrWs[t]] # "open"]
    /\ UNCHANGED <<reconnect, cpc, cres, exc, attempts, ws, sock, sockCode, close_code,
                   keep_alive, thrWs, since_recv, pollWait, closed, ucl, uTarget,
                   xTarget, disconnects, delays, silent>>
    /\ UNCHANGED <<dvars, avars, rvars, uvars>>

\* socket.close() is over: the socket is closed
SocketClosed(s) ==
    /\ sock[s] = "closing"
    /\ sock' = [sock EXCEPT ![s] = "closed"]
    /\ UNCHANGED <<reconnect, cpc, cres, exc, attempts, ws, sockCode, close_code,
                   keep_alive, thr, thrWs, stop_ev, since_recv, pollWait, closed, ucl,
                   uTarget, xTarget, disconnects, delays, silent>>
    /\ UNCHANGED <<dvars, avars, rvars, uvars>>

\* the application calls Client.close() (client.py 266-280)
UserClose ==
    /\ ucl = "idle"
    /\ LET c == ClientClose(keep_alive, stop_ev, sock)
       IN  /\ keep_alive' = c.ka
           /\ stop_ev' = c.se
           /\ close_code' = c.cc
           /\ sock' = c.sk
           /\ uTarget' = c.target
           /\ ucl' = IF c.target # 0 THEN "closing" ELSE "done"
    /\ closed' = TRUE
    /\ UNCHANGED <<reconnect, cpc, cres, exc, attempts, ws, sockCode, thr, thrWs,
                   since_recv, pollWait, xTarget, disconnects, delays, silent>>
    /\ UNCHANGED <<dvars, avars, rvars, uvars>>

\* the ws.close(code=1000) that call awaits is over (client.py 276-280)
UserCloseDone ==
    /\ ucl = "closing"
    /\ sock[uTarget] = "closed"
    /\ ucl' = "done"
    /\ uTarget' = 0
    /\ UNCHANGED <<reconnect, cpc, cres, exc, attempts, ws, sock, sockCode, close_code,
                   keep_alive, thr, thrWs, stop_ev, since_recv, pollWait, closed,
                   xTarget, disconnects, delays, silent>>
    /\ UNCHANGED <<dvars, avars, rvars, uvars>>

\* a thread object that has been made and has not ended
Alive(t) == thr[t] # "none"

\* one heartbeat interval passes
GwTick ==
    /\ \/ \E t \in Threads : Alive(t) /\ since_recv[t] < MaxSilence
       \/ Receiving /\ pollWait < HeartbeatTimeout
    /\ since_recv' = [t \in Threads |->
                        IF Alive(t)
                        THEN Min(since_recv[t] + HeartbeatInterval, MaxSilence)
                        ELSE since_recv[t]]
    /\ pollWait' = IF Receiving
                   THEN Min(pollWait + HeartbeatInterval, HeartbeatTimeout)
                   ELSE pollWait
    /\ UNCHANGED <<reconnect, cpc, cres, exc, attempts, ws, sock, sockCode, close_code,
                   keep_alive, thr, thrWs, stop_ev, closed, ucl, uTarget, xTarget, disconnects, delays, silent>>
    /\ UNCHANGED <<dvars, avars, rvars, uvars>>

\* one more KeepAliveHandler may be made
FewLive == Cardinality({t \in Threads : Alive(t)}) < MaxLive

\* an Authenticated frame is received while one more handler may be made
Authenticated == FewLive /\ RecvFrame("authenticated")

GNext ==
    \/ \E rc \in BOOLEAN : Connect(rc)
    \/ ConnectOk
    \/ \E e \in ConnectErrors : ConnectFail(e)
    \/ AuthSent
    \/ HandshakeTimeout
    \/ Authenticated
    \/ \E kind \in {"event", "error"} : RecvFrame(kind)
    \/ BeatSent
    \/ BeatFailed
    \/ \E code \in CloseCodes : RecvPeerClose(code)
    \/ RecvLocalClose
    \/ \E e \in SocketErrors : RecvSocketError(e)
    \/ PollTimeout
    \/ HandlerCloseDone
    \/ BackoffDone
    \/ \E t \in Threads : ThreadCheck(t)
    \/ \E t \in Threads : ThreadClose(t)
    \/ \E t \in Threads : ThreadCloseDone(t)
    \/ \E t \in Threads : ThreadBeat(t)
    \/ \E s \in Sessions : SocketClosed(s)
    \/ UserClose
    \/ UserCloseDone
    \/ GwTick



\* one connect(reconnect=True) that nobody closes, on a gateway that sends
\* frames of every type in any order and at any time, or is silent
MonitorNext ==
    \/ Connect(TRUE)
    \/ ConnectOk
    \/ AuthSent
    \/ \E kind \in {"authenticated", "event", "error"} : RecvFrame(kind)
    \/ BeatSent
    \/ BeatFailed
    \/ RecvLocalClose
    \/ PollTimeout
    \/ \E t \in Threads : ThreadCheck(t)
    \/ \E t \in Threads : ThreadClose(t)
    \/ \E t \in Threads : ThreadCloseDone(t)
    \/ \E t \in Threads : ThreadBeat(t)
    \/ \E s \in Sessions : SocketClosed(s)
    \/ GwTick

\* ------------------------------------------------------------------------
\* DeltaWebSocket.wait_for, received_payload; Client.wait_for, dispatch
\* ------------------------------------------------------------------------

\* loop.create_future(): a future not made before
FreshFuture == CHOOSE f \in Futures :
                  /\ future[f].st = "none"
                  /\ \A g \in Futures : future[g].st = "none" => f <= g

Pending == [st |-> "pending", ret |-> NoRet]

\* the entry of a sequence of entries that holds future f
EntryOf(seq, f) == seq[CHOOSE i \in DOMAIN seq : seq[i].future = f]

Holds(seq, f) == \E i \in DOMAIN seq : seq[i].future = f

\* DeltaWebSocket.wait_for(event, predicate, result) (gateway.py 234-257)
WsWaitFor(event, predicate, resultFn) ==
    /\ \E f \in Futures : future[f].st = "none"
    /\ future' = [future EXCEPT ![FreshFuture] = Pending]
    /\ dispatch_listeners' =
          Append(dispatch_listeners,
                 [event |-> event, predicate |-> predicate, result |-> resultFn,
                  future |-> FreshFuture])
    /\ UNCHANGED <<listeners, waitEvent, dispatched, raised, token, lpc, ltoken, old_token, tokenAtCall,
                   lres, lstatus>>
    /\ UNCHANGED <<dvars, gvars, rvars, uvars>>

\* Client.wait_for(event, check=check) up to the awaitable it returns
\* (client.py 381-482)
ClientWaitFor(event, check) ==
    /\ \E f \in Futures : future[f].st = "none"
    /\ future' = [future EXCEPT ![FreshFuture] = Pending]
    /\ listeners' = [listeners EXCEPT ![Lower(event)] =
                        Append(@, [future |-> FreshFuture, check |-> check])]
    /\ waitEvent' = [waitEvent EXCEPT ![FreshFuture] = event]
    /\ UNCHANGED <<dispatch_listeners, dispatched, raised, token, lpc, ltoken, old_token,
                   tokenAtCall, lres, lstatus>>
    /\ UNCHANGED <<dvars, gvars, rvars, uvars>>

\* the holder of a future cancels it: asyncio.wait_for(future, timeout) runs
\* out (client.py 482), or the caller of DeltaWebSocket.wait_for gives up
CancelFuture(f) ==
    /\ future[f].st = "pending"
    /\ future' = [future EXCEPT ![f].st = "cancelled"]
    /\ UNCHANGED <<dispatch_listeners, listeners, waitEvent, dispatched, raised, token, lpc,
                   ltoken, old_token, tokenAtCall, lres, lstatus>>
    /\ UNCHANGED <<dvars, gvars, rvars, uvars>>

\* what the loop of dispatch does with one pair (client.py 136-153)
PairOutcome(fs, pair, args) ==
    IF fs[pair.future].st = "cancelled" THEN "cancelled"
    ELSE LET v == Check(pair.check, args)
         IN  IF v = "raises" THEN "raises" ELSE IF v = "true" THEN "valid" ELSE "keep"

\* Client.dispatch(event, *args) on the table ls and the futures fs
\* (client.py 130-160)
ClientDispatch(ls, fs, event, args) ==
    LET lst == IF event \in DOMAIN ls THEN ls[event] ELSE <<>>
    IN  [ls |-> IF event \in DOMAIN ls
                THEN [ls EXCEPT ![event] =
                         SelectSeq(lst, LAMBDA p : PairOutcome(fs, p, args) = "keep")]
                ELSE ls,
         fs |-> [f \in Futures |->
                   IF ~Holds(lst, f) THEN fs[f]
                   ELSE LET o == PairOutcome(fs, EntryOf(lst, f), args)
                        IN  IF o = "raises" THEN [st |-> "exception", ret |-> NoRet]
                            ELSE IF o = "valid"
                            THEN [st |-> "result", ret |-> Resolved(args)]
                            ELSE fs[f]]]

\* the application, or a parser, calls Client.dispatch(event, *args)
Dispatch(event, args) ==
    /\ LET d == ClientDispatch(listeners, future, event, args)
       IN  /\ listeners' = d.ls
           /\ future' = d.fs
    /\ dispatched' = [event |-> event, args |-> args]
    /\ UNCHANGED <<dispatch_listeners, waitEvent, raised, token, lpc, ltoken, old_token,
                   tokenAtCall, lres, lstatus>>
    /\ UNCHANGED <<dvars, gvars, rvars, uvars>>

\* what the loop of received_payload does with one entry (gateway.py 293-310)
EntryOutcome(fs, entry, event_type, frame) ==
    IF entry.event # event_type THEN "keep"
    ELSE IF fs[entry.future].st = "cancelled" THEN "cancelled"
    ELSE LET v == Pred(entry.predicate, frame)
         IN  IF v = "raises" THEN "raises" ELSE IF v = "true" THEN "valid" ELSE "keep"

\* Future.set_result and Future.set_exception raise InvalidStateError on a
\* future that holds a result or an exception already
Done(fs, f) == fs[f].st \in {"result", "exception"}

\* the loop over the listeners from entry i on (gateway.py 293-310): fs are
\* the futures and removed the indices collected so far. An exception of
\* entry.result, or of set_result and set_exception, ends the loop and leaves
\* received_payload.
RECURSIVE Scan(_, _, _, _, _, _)
Scan(seq, i, fs, removed, event_type, frame) ==
    IF i > Len(seq) THEN [fs |-> fs, removed |-> removed, exc |-> "none"]
    ELSE LET entry == seq[i]
             f == entry.future
             o == EntryOutcome(fs, entry, event_type, frame)
         IN  CASE o = "keep" -> Scan(seq, i + 1, fs, removed, event_type, frame)
               [] o = "cancelled" ->
                    Scan(seq, i + 1, fs, removed \cup {i}, event_type, frame)
               [] o = "raises" ->
                    IF Done(fs, f)
                    THEN [fs |-> fs, removed |-> removed, exc |-> "InvalidStateError"]
                    ELSE Scan(seq, i + 1,
                              [fs EXCEPT ![f] = [st |-> "exception", ret |-> NoRet]],
                              removed \cup {i}, event_type, frame)
               [] o = "valid" ->
                    IF RetRaises(entry.result, frame)
                    THEN [fs |-> fs, removed |-> removed, exc |-> "ZeroDivisionError"]
                    ELSE IF Done(fs, f)
                    THEN [fs |-> fs, removed |-> removed, exc |-> "InvalidStateError"]
                    ELSE Scan(seq, i + 1,
                              [fs EXCEPT ![f] = [st |-> "result",
                                                 ret |-> RetOf(entry.result, frame)]],
                              removed \cup {i}, event_type, frame)

\* the sequence without the entries at the indices in removed (gateway.py
\* 312-313)
Without(seq, removed) ==
    LET kept(i) == Cardinality({j \in 1..i : j \notin removed})
    IN  [k \in 1..kept(Len(seq)) |->
           seq[CHOOSE i \in 1..Len(seq) : i \notin removed /\ kept(i) = k]]

\* DeltaWebSocket.received_payload (gateway.py 268-314) for a frame that is
\* neither Error nor Authenticated: dispatch("socket_event_type", event_type),
\* the handler of the type (Handlers.ready dispatches "ready", gateway.py
\* 172-173), then the listeners; the entries collected are deleted after the
\* loop, when it has ended without an exception. What it does to the
\* keep-alive is RecvFrame.
ReceivedPayload(frame) ==
    LET event_type == Lower(frame.type)
        d1 == ClientDispatch(listeners, future, Str_socket_event_type, <<event_type>>)
        d2 == IF event_type = Str_ready
              THEN ClientDispatch(d1.ls, d1.fs, Str_ready, <<>>)
              ELSE d1
        scan == Scan(dispatch_listeners, 1, d2.fs, {}, event_type, frame)
    IN  /\ listeners' = d2.ls
        /\ dispatched' = IF event_type = Str_ready
                         THEN [event |-> Str_ready, args |-> <<>>]
                         ELSE [event |-> Str_socket_event_type, args |-> <<event_type>>]
        /\ future' = scan.fs
        /\ raised' = scan.exc
        /\ dispatch_listeners' = IF scan.exc = "none"
                                 THEN Without(dispatch_listeners, scan.removed)
                                 ELSE dispatch_listeners
        /\ UNCHANGED <<waitEvent, token, lpc, ltoken, old_token, tokenAtCall,
                       lres, lstatus>>
        /\ UNCHANGED <<dvars, gvars, rvars, uvars>>

ListenNext ==
    \/ \E event \in WsEvents, predicate \in Predicates, resultFn \in Results :
          WsWaitFor(event, predicate, resultFn)
    \/ \E event \in ClientEvents, check \in Checks : ClientWaitFor(event, check)
    \/ \E f \in Futures : CancelFuture(f)
    \/ \E event \in DispatchEvents, args \in ArgLists : Dispatch(event, args)
    \/ \E frame \in Frames : ReceivedPayload(frame)

\* ------------------------------------------------------------------------
\* Delta.static_login (delta.py 292-313)
\* ------------------------------------------------------------------------

\* static_login(token) is called: the session is made and get_api_info is
\* awaited (delta.py 292-295)
StaticLogin(t) ==
    /\ lpc = "idle"
    /\ lpc' = "info"
    /\ ltoken' = t
    /\ tokenAtCall' = token
    /\ lres' = "none"
    /\ lstatus' = 0
    /\ UNCHANGED <<token, old_token>>
    /\ UNCHANGED <<dispatch_listeners, listeners, future, waitEvent, dispatched, raised>>
    /\ UNCHANGED <<dvars, gvars, rvars, uvars>>

\* get_api_info ends (delta.py 295): an error goes to the caller; else the
\* token is set and GET /users/@me is requested (delta.py 297-306)
ApiInfo(o) ==
    /\ lpc = "info"
    /\ IF o.res = "ok"
       THEN /\ lpc' = "me"
            /\ old_token' = token
            /\ token' = ltoken
            /\ UNCHANGED <<lres, lstatus>>
       ELSE /\ lpc' = "idle"
            /\ lres' = o.res
            /\ lstatus' = o.status
            /\ UNCHANGED <<token, old_token>>
    /\ UNCHANGED <<ltoken, tokenAtCall>>
    /\ UNCHANGED <<dispatch_listeners, listeners, future, waitEvent, dispatched, raised>>
    /\ UNCHANGED <<dvars, gvars, rvars, uvars>>

\* the request of GET /users/@me ends (delta.py 305-313)
Me(o) ==
    /\ lpc = "me"
    /\ lpc' = "idle"
    /\ IF o.res = "ok"
       THEN /\ lres' = "ok"
            /\ lstatus' = 0
            /\ UNCHANGED token
       ELSE IF IsHTTPException(o.res)
       THEN /\ token' = old_token
            /\ lres' = IF o.status = 401 THEN "LoginFailure" ELSE o.res
            /\ lstatus' = IF o.status = 401 THEN 0 ELSE o.status
       ELSE /\ lres' = o.res
            /\ lstatus' = o.status
            /\ UNCHANGED token
    /\ UNCHANGED <<ltoken, old_token, tokenAtCall>>
    /\ UNCHANGED <<dispatch_listeners, listeners, future, waitEvent, dispatched, raised>>
    /\ UNCHANGED <<dvars, gvars, rvars, uvars>>

LoginNext ==
    \/ \E t \in Tokens : StaticLogin(t)
    \/ \E o \in RequestOutcomes : ApiInfo(o)
    \/ \E o \in RequestOutcomes : Me(o)


\* ------------------------------------------------------------------------
\* DeltaWebSocket.send_payload, send_heartbeat and GatewayRatelimiter.block
\* (gateway.py 84-113, 353-376), on an open socket
\* ------------------------------------------------------------------------

\* the frames a call may still transmit before the log is full
LogRoom == Len(sentLog) < RateMax + 2

\* get_delay (gateway.py 91-107) on remaining and the time since window:
\* the delay, and the two fields as it leaves them
GetDelay ==
    LET r1 == IF WindowOver(sinceWindow) THEN RateMax ELSE remaining
        w1 == IF r1 = RateMax THEN 0 ELSE sinceWindow
    IN  IF r1 = 0
        THEN [delta |-> RatePer - w1, remaining |-> r1, since |-> w1]
        ELSE [delta |-> 0, remaining |-> r1 - 1,
              since |-> IF r1 - 1 = 0 THEN 0 ELSE w1]

\* socket.send_str(...) (gateway.py 364): the frame is transmitted
Transmit(s) == sentLog' = Append(sentLog, [kind |-> skind[s], age |-> 0])

\* leaving "async with self.lock" (gateway.py 110-113): release() wakes the
\* first waiter
RlRelease ==
    /\ rl_locked' = FALSE
    /\ rl_woken' = (rl_waiters' # <<>>)

\* block() once the lock is held (gateway.py 110-113), then the send
\* (gateway.py 364); k is the kind of the frame of sender s
Block(s, k) ==
    LET g == GetDelay
    IN  /\ remaining' = g.remaining
        /\ sinceWindow' = g.since
        /\ skind' = [skind EXCEPT ![s] = k]
        /\ IF g.delta # 0
           THEN /\ spc' = [spc EXCEPT ![s] = "sleep"]
                /\ sleft' = [sleft EXCEPT ![s] = g.delta]
                /\ rl_locked' = TRUE
                /\ rl_woken' = FALSE
                /\ UNCHANGED sentLog
           ELSE /\ spc' = [spc EXCEPT ![s] = "idle"]
                /\ sleft' = sleft
                /\ RlRelease
                /\ sentLog' = Append(sentLog, [kind |-> k, age |-> 0])

\* send_payload(payload) is called, by the application or by send_heartbeat
\* (gateway.py 361-376): the lock of the limiter is taken or waited for
SendPayload(s, k) ==
    /\ spc[s] = "idle"
    /\ LogRoom
    /\ IF ~rl_locked /\ rl_waiters = <<>>
       THEN /\ rl_waiters' = rl_waiters
            /\ Block(s, k)
       ELSE /\ rl_waiters' = Append(rl_waiters, s)
            /\ spc' = [spc EXCEPT ![s] = "lock"]
            /\ skind' = [skind EXCEPT ![s] = k]
            /\ UNCHANGED <<remaining, sinceWindow, rl_locked, rl_woken, sleft, sentLog>>
    /\ UNCHANGED <<dvars, gvars, avars, uvars>>

\* lock.acquire() returns for the first waiter (gateway.py 110)
RlResume(s) ==
    /\ spc[s] = "lock"
    /\ rl_woken
    /\ Head(rl_waiters) = s
    /\ rl_waiters' = Tail(rl_waiters)
    /\ Block(s, skind[s])
    /\ UNCHANGED <<dvars, gvars, avars, uvars>>

\* asyncio.sleep(delta) returns (gateway.py 113): the lock is released and
\* the frame is sent
RlWake(s) ==
    /\ spc[s] = "sleep"
    /\ sleft[s] = 0
    /\ spc' = [spc EXCEPT ![s] = "idle"]
    /\ rl_waiters' = rl_waiters
    /\ RlRelease
    /\ Transmit(s)
    /\ UNCHANGED <<remaining, sinceWindow, skind, sleft>>
    /\ UNCHANGED <<dvars, gvars, avars, uvars>>

\* one second passes
RlTick ==
    /\ sinceWindow' = IF WindowOver(sinceWindow) THEN sinceWindow ELSE sinceWindow + 1
    /\ sleft' = [s \in Senders |-> IF sleft[s] > 0 THEN sleft[s] - 1 ELSE 0]
    /\ sentLog' = LET aged == [i \in DOMAIN sentLog |->
                                 [sentLog[i] EXCEPT !.age = @ + 1]]
                  IN  SelectSeq(aged, LAMBDA e : e.age < RatePer)
    /\ UNCHANGED <<remaining, rl_locked, rl_waiters, rl_woken, spc, skind>>
    /\ UNCHANGED <<dvars, gvars, avars, uvars>>

SendNext ==
    \/ \E s \in Senders, k \in SendKinds : SendPayload(s, k)
    \/ \E s \in Senders : RlResume(s)
    \/ \E s \in Senders : RlWake(s)
    \/ RlTick


\* ------------------------------------------------------------------------
\* from_client: the URL the socket is opened to (gateway.py 41-45, 208-217)
\* ------------------------------------------------------------------------

\* the module is imported: msgpack is there, or its import raises ImportError
\* (gateway.py 41-45)
ImportGateway(found) ==
    /\ msgpack_import = "none"
    /\ msgpack_import' = IF found THEN "ok" ELSE "ImportError"
    /\ use_msgpack' = found
    /\ UNCHANGED <<info_ws, url>>
    /\ UNCHANGED <<dvars, gvars, avars, rvars>>

\* static_login stores the capability info, which names the gateway URL
\* (delta.py 295)
Discover(u) ==
    /\ info_ws = NoUrl
    /\ info_ws' = u
    /\ UNCHANGED <<msgpack_import, use_msgpack, url>>
    /\ UNCHANGED <<dvars, gvars, avars, rvars>>

\* a + b if c else d is (a + b) if c else d
Url(ws_url, msgpack) ==
    IF msgpack THEN ws_url \o <<"?format=">> \o <<"msgpack">> ELSE <<"json">>

\* url = client.api.info["ws"] + "?format=" + "msgpack" if use_msgpack else
\* "json", and ws_connect(url) (gateway.py 213-215)
FromClientUrl ==
    /\ msgpack_import # "none"
    /\ info_ws # NoUrl
    /\ url' = Url(info_ws, use_msgpack)
    /\ url' # url
    /\ UNCHANGED <<msgpack_import, use_msgpack, info_ws>>
    /\ UNCHANGED <<dvars, gvars, avars, rvars>>

UrlNext ==
    \/ \E found \in BOOLEAN : ImportGateway(found)
    \/ \E u \in GatewayUrls : Discover(u)
    \/ FromClientUrl

vars == <<dvars, gvars, avars, rvars, uvars>>

\* no REST call made, connect() not called, nothing waited for, no login,
\* nothing sent
Init == DInit /\ GInit /\ AInit /\ RInit /\ UInit

\* the dispatcher, with no gateway connection under way
Spec == Init /\ [][DNext]_vars

\* connect(), the gateway sessions and their threads, with no REST call under way
GwSpec == Init /\ [][GNext]_vars

\* a session and the KeepAliveHandler threads made for it
MonitorSpec == Init /\ [][MonitorNext]_vars

\* the listeners of a session and the waiters of the client, frames arriving
ListenSpec == Init /\ [][ListenNext]_vars

\* calls of static_login, one at a time
LoginSpec == Init /\ [][LoginNext]_vars

\* the dispatcher with routes of several channels and servers, no call failing
BucketSpec == Init /\ [][BucketNext]_vars

\* frames and heartbeats sent on the open socket of a session
SendSpec == Init /\ [][SendNext]_vars

\* the dispatcher under global rate limits: time passes, the loop runs every
\* task that is ready, every sleep that is over returns and every request is
\* answered; a call is started or cancelled when its caller chooses
GateFairSpec ==
    /\ Init
    /\ [][GateNext]_vars
    /\ WF_vars(Tick)
    /\ \A r \in Req : /\ WF_vars(Wake(r))
                      /\ WF_vars(GateResume(r))
                      /\ WF_vars(LockResume(r))
                      /\ WF_vars(Answered(r))
                      /\ WF_vars(Returned(r))

\* the import of gateway.py, the capability info and the URL of from_client
UrlSpec == Init /\ [][UrlNext]_vars


\* ------------------------------------------------------------------------
\* Properties of the dispatcher
\* ------------------------------------------------------------------------

\* the call holds its bucket's lock: it is between lock.acquire() and the end
\* of the with block
InFlight(r) == InWith(r)

\* C1: of the calls whose routes have the same bucket-key, at most one is
\* between acquiring the bucket lock and leaving the attempt loop.
C1_OneInFlightPerBucket ==
    \A r1, r2 \in Req :
        (r1 # r2 /\ InFlight(r1) /\ InFlight(r2))
            => bucket(route[r1]) # bucket(route[r2])

\* C1 witness: one call sleeps before a retry while a second call to the same
\* bucket-key waits for the lock.
C1_Witness ==
    \E r1, r2 \in Req :
        /\ pc[r1] = "sleep"
        /\ pc[r2] = "lock"
        /\ bucket(route[r1]) = bucket(route[r2])
        /\ route[r1] # route[r2]

\* the retry_after of a global 429 is still running
GlobalPending(a) ==
    pc[a] = "sleep" /\ sleepKind[a] = "429" /\ is_global[a] /\ left[a] > 0

\* C2 (as claimed): while the retry_after of a 429 marked global has not
\* elapsed, no call sends an HTTP request.
C2_NoSendDuringGlobalCooldown ==
    [][(\E a \in Req : GlobalPending(a)) => (\A r \in Req : sent'[r] = sent[r])]_dvars

\* C3: one call sends at most five HTTP requests, and every retry, whatever
\* caused it, moves the same attempt counter.
C3_AtMostFiveAttempts ==
    \A r \in Req :
        /\ sent[r] <= 5
        /\ InFlight(r) => sent[r] = tries[r] + 1

\* C3 witness: a call sleeps after its fifth attempt was answered with a 429.
C3_Witness ==
    \E r \in Req : sent[r] = 5 /\ pc[r] = "sleep" /\ sleepKind[r] = "429"

\* C4 (as claimed): a call that ends on a 503 has made five attempts.
C4_Original ==
    \A r \in Req :
        (pc[r] = "done" /\ resp[r] = 503) => sent[r] = 5

\* C4 (amended): a call answered 500, 502 or 504 on every attempt makes five
\* attempts, then raises RevoltServerError, and never makes a sixth; a 503 is
\* not retried: the call raises RevoltServerError on the attempt that gets it.
C4_RetryExhaustion ==
    \A r \in Req :
        /\ sent[r] <= 5
        /\ (pc[r] = "done" /\ resp[r] \in {500, 502, 504})
               => (sent[r] = 5 /\ result[r] = "RevoltServerError")
        /\ resp[r] = 503 => (pc[r] = "done" /\ result[r] = "RevoltServerError")

\* C4 witness: a call has raised RevoltServerError for a 500 after five
\* attempts.
C4_Witness ==
    \E r \in Req :
        pc[r] = "done" /\ resp[r] = 500 /\ sent[r] = 5
            /\ result[r] = "RevoltServerError"

\* C5: a lock that is held has a holder inside the with block, a call that
\* has ended holds no lock, and when a lock with waiters is free its first
\* waiter has been woken: whichever way a call ends, the next call to the
\* bucket-key gets the lock.
C5_LockReleasedOnEveryExit ==
    /\ \A l \in LockIds :
          /\ locked[l] => \E r \in Req : InFlight(r) /\ lockRef[r] = l
          /\ waiters[l] # <<>> => (locked[l] \/ woken[l])
    /\ \A r \in Req : pc[r] = "done" => lockRef[r] = 0

\* C5 witness: a call has run out of attempts and raised, and the call that
\* waited for the same lock has been woken.
C5_Witness ==
    \E r1, r2 \in Req :
        /\ pc[r1] = "done" /\ sent[r1] = 5 /\ result[r1] = "HTTPException"
        /\ pc[r2] = "lock" /\ woken[lockRef[r2]] /\ ~locked[lockRef[r2]]

\* C6 (as claimed): a connection-reset OSError is never raised to the caller.
C6_Original ==
    \A r \in Req : ~(result[r] = "OSError" /\ errno[r] \in {54, 10054})

\* C6 (amended): a connection-reset OSError raised by one of the first four
\* attempts is absorbed by a retry after 1 + 2 * tries seconds, the delay of a
\* 5xx retry; raised by the fifth attempt it is re-raised to the caller.
C6_ResetRetriedUntilLastAttempt ==
    \A r \in Req :
        /\ (result[r] = "OSError" /\ errno[r] \in {54, 10054}) => sent[r] = 5
        /\ (pc[r] = "sleep" /\ sleepKind[r] \in {"reset", "5xx"})
               => delay[r] = 1 + 2 * tries[r]
        /\ (pc[r] = "sleep" /\ sleepKind[r] = "reset") => sent[r] <= 4

\* C6 witness: the fifth attempt of a call was reset and the call raised.
C6_Witness ==
    \E r \in Req : result[r] = "OSError" /\ errno[r] = 10054 /\ sent[r] = 5

\* ------------------------------------------------------------------------
\* Properties of connect() and the gateway sessions
\* ------------------------------------------------------------------------

\* the peer closed session s with a code in C: socket.close_code holds it
PeerClosed(s, C) == sockCode[s] \in C

\* connect() does not go on after the close of session s: it is closing the
\* client or is over, and s is the last session
EndsWith(s) == attempts = s /\ cpc \in {"x_close", "done"}

\* C7 as stated: a gateway close with code 1000 when reconnect is requested
\* is followed by no new session, and connect() returns without raising.
C7_Original ==
    \A s \in Sessions :
        (reconnect /\ PeerClosed(s, {1000})) =>
            /\ EndsWith(s)
            /\ cpc = "done" => cres = "returned"

\* C7: a gateway close with code 1000 ends connect() when reconnect is not
\* requested: the client is closed, no new session follows, and connect()
\* returns without raising. When reconnect is requested, connect() sleeps the
\* backoff delay towards a new attempt, and returns only if the client has
\* been closed.
C7_CleanCloseEndsWithoutReconnect ==
    \A s \in Sessions :
        PeerClosed(s, {1000}) =>
            IF ~reconnect
            THEN /\ EndsWith(s)
                 /\ closed
                 /\ cpc = "done" => cres = "returned"
            ELSE attempts = s =>
                    \/ cpc = "backoff"
                    \/ cpc = "done" /\ cres = "returned" /\ closed

\* an established session is closed by the peer with 1000, reconnect not
\* requested, and connect() has closed the client and returned
C7_Witness ==
    \E s \in Sessions :
        /\ ~reconnect
        /\ PeerClosed(s, {1000})
        /\ ws = s
        /\ sock[s] = "closed"
        /\ cpc = "done"
        /\ cres = "returned"

Monitored(s) == \E t \in Threads : thrWs[t] = s /\ thr[t] # "created" /\ ~stop_ev[t]

\* C9: when no frame has come on an authenticated session for more than the
\* heartbeat timeout, its socket is closed or being closed, or a heartbeat
\* monitor of the session is still at work to close it.
C9_StalledSessionIsClosed ==
    (silent /\ pollWait >= HeartbeatInterval) =>
        \/ sock[attempts] # "open"
        \/ Monitored(attempts)

\* the heartbeat monitor has force-closed session s: DeltaWebSocket.close ran
\* with its default code on a socket that had met no close of its own
ForceClosed(s) ==
    /\ close_code[s] = 4000
    /\ sockCode[s] = 0
    /\ sock[s] \in {"closing", "closed"}

\* C10: after the heartbeat monitor has force-closed a session, with
\* reconnect requested and the client not closed, connect() is still running
\* or has made a later attempt.
C10_ReconnectAfterForceClose ==
    \A s \in Sessions :
        (ForceClosed(s) /\ reconnect /\ ~closed) => (cpc # "done" \/ attempts > s)

\* ------------------------------------------------------------------------
\* Claims C11-C20
\* ------------------------------------------------------------------------

\* C11: requests to one bucket-key are sent in the order they were made: a
\* call that is made while an earlier call to the same bucket-key has not yet
\* taken the bucket lock (it waits for the lock, or for the gate, or was woken
\* at the gate and has not resumed) does not send its first attempt ahead of
\* that earlier call.
C11_SubmissionOrderKept ==
    [][\A a, b \in Req :
         (/\ a # b
          /\ pc[a] \in {"gate", "gate_woken", "lock"}
          /\ pc[b] = "idle"
          /\ pc'[b] # "idle"
          /\ bucket(route'[b]) = bucket(route[a]))
         => sent'[b] = 0]_dvars

\* C12: two routes in use that differ in their HTTP method have different
\* bucket-keys, and the calls made to them do not share a lock.
C12_MethodInBucketKey ==
    \A a, b \in Req :
        (/\ route[a] # NoRoute
         /\ route[b] # NoRoute
         /\ route[a].method # route[b].method)
        => (bucket(route[a]) # bucket(route[b]) /\ lockRef[a] # lockRef[b])

\* C13: routes with different path templates have different bucket-keys,
\* calls to different bucket-keys never refer to the same lock, and a call
\* that waits for a lock nobody has yet been handed waits for a call of its
\* own bucket-key that is inside the with block.
C13_DifferentBucketsRunConcurrently ==
    /\ \A a, b \in Req :
          (route[a] # NoRoute /\ route[b] # NoRoute /\ route[a].path # route[b].path)
          => bucket(route[a]) # bucket(route[b])
    /\ \A a, b \in Req :
          (/\ route[a] # NoRoute
           /\ route[b] # NoRoute
           /\ bucket(route[a]) # bucket(route[b]))
          => lockRef[a] # lockRef[b]
    /\ \A a \in Req :
          (pc[a] = "lock" /\ ~woken[lockRef[a]])
          => \E b \in Req \ {a} :
                /\ InWith(b)
                /\ lockRef[b] = lockRef[a]
                /\ bucket(route[b]) = bucket(route[a])

\* C13 witness: GET /channels/{channel_id} and POST
\* /channels/{channel_id}/messages of the same channel are in flight at once,
\* each holding its own lock.
C13_Witness ==
    \E a, b \in Req :
        /\ pc[a] = "http" /\ pc[b] = "http"
        /\ route[a].method = "GET" /\ route[a].path = "/channels/{channel_id}"
        /\ route[b].method = "POST" /\ route[b].path = "/channels/{channel_id}/messages"
        /\ route[a].channel_id = route[b].channel_id
        /\ lockRef[a] # lockRef[b]
        /\ locked[lockRef[a]] /\ locked[lockRef[b]]

\* poll_event is told by the socket that it is closed or closing
PollMeetsClosure == (\E code \in CloseCodes : RecvPeerClose(code)) \/ RecvLocalClose

\* the close code poll_event goes by: the one recorded by close(), else the
\* one the socket has after the receive
ClosureCode == IF close_code[attempts] # 0 THEN close_code[attempts]
               ELSE sockCode'[attempts]

\* C14: when the socket reports closure during poll_event, the session is
\* never polled again; with a close code among 1000, 4004, 4010, 4011, 4012,
\* 4013, 4014 (the locally recorded code, else the socket's) the handler of
\* connect() is given ConnectionClosed with that code, and with every other
\* code it is given ReconnectWebSocket: it goes to the top of its loop and
\* opens a new session unless the client is closed.
C14_ClosurePolicy ==
    [][PollMeetsClosure =>
         /\ (cpc' \in {"handshake", "hs_beat", "poll", "beat"} => attempts' > attempts)
         /\ IF ClosureCode \in {1000, 4004, 4010, 4011, 4012, 4013, 4014}
            THEN \/ exc' = [kind |-> "ConnectionClosed", code |-> ClosureCode, errno |-> 0]
                 \/ (ClosureCode = 1000 /\ reconnect /\ ~closed /\ cpc' = "backoff")
            ELSE \/ (~closed /\ cpc' = "connecting" /\ attempts' = attempts + 1)
                 \/ (closed /\ cpc' = "done" /\ cres' = "returned"
                       /\ exc'.kind = "ReconnectWebSocket")]_vars

\* C14 witness: connect() has ended on a ConnectionClosed with a policy-level
\* code that poll_event raised for a close frame of the peer.
C14_Witness ==
    /\ cpc = "done"
    /\ exc.kind = "ConnectionClosed"
    /\ exc.code \in NonRecoverable
    /\ sockCode[attempts] = exc.code
    /\ close_code[attempts] = 0

\* C15: a response with status 403, 404, a 5xx other than 500, 502, 504, or a
\* 4xx other than 429 ends the call in the step that receives it: the call
\* raises Forbidden, NotFound, RevoltServerError or HTTPException
\* respectively, the error carries the status, and nothing more is sent.
C15_FatalStatusEndsCall ==
    [][\A r \in Req, status \in Statuses \ {200, 429, 500, 502, 504} :
         Respond(r, status) =>
            /\ pc'[r] = "done"
            /\ resp'[r] = status
            /\ result'[r] = IF status = 403 THEN "Forbidden"
                            ELSE IF status = 404 THEN "NotFound"
                            ELSE IF status \in 500..599 THEN "RevoltServerError"
                            ELSE "HTTPException"
            /\ sent' = sent
            /\ ~locked'[lockRef[r]]]_vars

\* C15 witness: a call has raised NotFound for a 404 and another has raised
\* RevoltServerError for a 503.
C15_Witness ==
    \E a, b \in Req :
        /\ pc[a] = "done" /\ result[a] = "NotFound" /\ resp[a] = 404
        /\ pc[b] = "done" /\ result[b] = "RevoltServerError" /\ resp[b] = 503

\* C16: a call that sleeps after its fifth attempt was answered with a framed
\* 429 or with 500, 502 or 504 ends when the sleep is over (or is cancelled):
\* it raises RevoltServerError when that last status is 500 or more and
\* HTTPException otherwise, and the error carries that status.
C16_ExhaustedRaisesForLastResponse ==
    [][\A r \in Req :
         (pc[r] = "sleep" /\ sent[r] = 5 /\ sleepKind[r] # "reset" /\ pc'[r] # "sleep")
         => /\ pc'[r] = "done"
            /\ resp[r] \in {429, 500, 502, 504}
            /\ \/ result'[r] = "CancelledError"
               \/ /\ result'[r] = IF resp[r] >= 500 THEN "RevoltServerError"
                                  ELSE "HTTPException"
                  /\ resp'[r] = resp[r]]_vars

\* C16 witness: a call has raised RevoltServerError carrying 502, a status
\* that only a call out of attempts raises for.
C16_Witness ==
    \E r \in Req :
        pc[r] = "done" /\ result[r] = "RevoltServerError" /\ resp[r] = 502 /\ sent[r] = 5

\* C17: a 429 without the rate-limit framing ends the call in the step that
\* receives it with HTTPException carrying 429: the call does not sleep,
\* nothing more is sent, and the gate is as it was.
C17_UnframedRateLimitIsFatal ==
    [][\A r \in Req, retry_after \in RetryAfters, glob \in BOOLEAN :
         RateLimited(r, FALSE, retry_after, glob) =>
            /\ pc'[r] = "done"
            /\ result'[r] = "HTTPException"
            /\ resp'[r] = 429
            /\ sent' = sent
            /\ global_over' = global_over
            /\ \A q \in Req : pc'[q] # "sleep" \/ pc[q] = "sleep"]_vars

\* C17 witness: a call has raised HTTPException for a 429 on its first
\* attempt, and the gate is set.
C17_Witness ==
    \E r \in Req :
        /\ pc[r] = "done" /\ result[r] = "HTTPException" /\ resp[r] = 429 /\ sent[r] = 1
        /\ global_over

\* every character of the name is an upper-case letter
UpperCaseName(s) == s # <<>> /\ \A i \in DOMAIN s : LowerChar(s[i]) # s[i]

\* C18: when a frame arrives, every pending future of DeltaWebSocket.wait_for
\* whose event name is the upper-case spelling of the frame's type and whose
\* predicate holds of the payload is fulfilled: with the payload when result
\* is None, with result(payload) otherwise.
C18_UpperCaseListenerFulfilled ==
    [][\A frame \in Frames :
         ReceivedPayload(frame) =>
            \A i \in DOMAIN dispatch_listeners :
               LET e == dispatch_listeners[i]
               IN  (/\ UpperCaseName(e.event)
                    /\ Lower(e.event) = Lower(frame.type)
                    /\ future[e.future].st = "pending"
                    /\ Pred(e.predicate, frame) = "true")
                   => /\ future'[e.future].st = "result"
                      /\ future'[e.future].ret =
                            IF e.result = "None"
                            THEN [kind |-> "payload", args |-> <<frame.type>>,
                                  data |-> frame.data]
                            ELSE [kind |-> "data", args |-> <<>>, data |-> frame.data]]_vars

\* the key of Client._listeners under which the waiter of future f is kept
Waits(f) == \E k \in Keys : Holds(listeners[k], f)

CheckOf(f) == LET k == CHOOSE k \in Keys : Holds(listeners[k], f)
              IN  EntryOf(listeners[k], f).check

\* C19 as stated: a call dispatch(event, *args) resolves every pending waiter
\* of wait_for(event, check) with that same event name whose check holds of
\* the arguments.
C19_Original ==
    [][\A event \in DispatchEvents, args \in ArgLists :
         Dispatch(event, args) =>
            \A f \in Futures :
               (/\ future[f].st = "pending"
                /\ Waits(f)
                /\ waitEvent[f] = event
                /\ Check(CheckOf(f), args) = "true")
               => future'[f].st = "result"]_vars

\* C19: a call dispatch(event, *args) resolves every pending waiter of a
\* wait_for whose event name, in lower case, is event and whose check holds of
\* the arguments: with None for no argument, the argument for one, the tuple
\* for several, and the waiter is removed; it leaves the other keys of the
\* table as they are, and the waiters kept under them; and no step changes a
\* future that has its result.
C19_WaiterResolvedByLowerCaseName ==
    [][/\ \A f \in Futures : future[f].st = "result" => future'[f] = future[f]
       /\ \A event \in DispatchEvents, args \in ArgLists :
            Dispatch(event, args) =>
               /\ \A k \in Keys \ {event} : listeners'[k] = listeners[k]
               /\ \A f \in Futures :
                     IF /\ future[f].st = "pending"
                        /\ Waits(f)
                        /\ Lower(waitEvent[f]) = event
                     THEN Check(CheckOf(f), args) = "true" =>
                             /\ future'[f].st = "result"
                             /\ future'[f].ret =
                                  IF Len(args) = 0
                                  THEN [kind |-> "None", args |-> <<>>, data |-> 0]
                                  ELSE IF Len(args) = 1
                                  THEN [kind |-> "single", args |-> <<args[1]>>, data |-> 0]
                                  ELSE [kind |-> "tuple", args |-> args, data |-> 0]
                             /\ \A k \in Keys : ~Holds(listeners'[k], f)
                     ELSE future'[f] = future[f]]_vars

\* C19 witness: a waiter registered as "Pong" has the tuple of the two
\* arguments of a dispatch of "pong", and a waiter for "ready" is still
\* pending in the table.
C19_Witness ==
    \E f, g \in Futures :
        /\ waitEvent[f] = Str_Pong
        /\ future[f] = [st |-> "result",
                        ret |-> [kind |-> "tuple", args |-> <<Str_pong, Str_ready>>,
                                 data |-> 0]]
        /\ waitEvent[g] = Str_ready
        /\ future[g].st = "pending"
        /\ Holds(listeners[Str_ready], g)

\* C20: when GET /users/@me of static_login is answered with an HTTP error,
\* the token is again the one held when static_login was called, and
\* static_login raises LoginFailure for a 401 and the error itself for any
\* other status; an error of get_api_info is raised with the token as it was;
\* when the request succeeds the token is the one static_login was given.
C20_LoginRestoresToken ==
    [][/\ \A o \in RequestOutcomes :
            Me(o) =>
               IF o.res = "ok"
               THEN token' = ltoken /\ lres' = "ok"
               ELSE IF o.res \in {"HTTPException", "Forbidden", "NotFound",
                                  "RevoltServerError"}
               THEN /\ token' = tokenAtCall
                    /\ IF o.status = 401 THEN lres' = "LoginFailure"
                       ELSE lres' = o.res /\ lstatus' = o.status
               ELSE lres' = o.res
       /\ \A o \in RequestOutcomes :
            (ApiInfo(o) /\ o.res # "ok") =>
               token' = tokenAtCall /\ lres' = o.res /\ lstatus' = o.status]_vars

\* C20 witness: a client that holds a token has called static_login with
\* another one, LoginFailure was raised, and it holds its token still.
C20_Witness ==
    /\ lpc = "idle"
    /\ lres = "LoginFailure"
    /\ token # 0
    /\ token = tokenAtCall
    /\ ltoken # token

\* ------------------------------------------------------------------------
\* Claims C21-C30
\* ------------------------------------------------------------------------

\* C21: no more than RateMax frames are transmitted within any RatePer
\* seconds (110 within 60 for the default limiter), and a send that was put
\* to sleep by the limiter is not transmitted before the window is over.
C21_AtMostMaxPerWindow ==
    /\ Len(sentLog) <= RateMax
    /\ \A s \in Senders : (spc[s] = "sleep" /\ sleft[s] = 0) => sinceWindow >= RatePer

\* C22: a heartbeat never waits on the limiter, neither for its lock nor in
\* its sleep, and its transmission takes none of the limiter's tokens.
C22_HeartbeatBypassesLimiter ==
    [][/\ \A s \in Senders : skind'[s] = "ping" => spc'[s] \notin {"lock", "sleep"}
       /\ (/\ Len(sentLog') > 0
           /\ sentLog'[Len(sentLog')] = [kind |-> "ping", age |-> 0]
           /\ \A s \in Senders : spc[s] # "sleep")
          => remaining' = remaining]_vars

\* C23: with reconnect not requested, once the socket of a session has been
\* closed by the peer or by a failure, connect() opens no further session:
\* it has dispatched "disconnect" and closed the client, and when it is over
\* it has raised the failure, or returned for a ConnectionClosed with 1000.
C23_NoReconnectClosesAndReraises ==
    \A s \in Sessions :
        (~reconnect /\ sockCode[s] # 0) =>
            /\ EndsWith(s)
            /\ closed
            /\ disconnects > 0
            /\ cpc = "done" =>
                  /\ exc # NoExc
                  /\ cres = IF exc.kind = "ConnectionClosed" /\ exc.code = 1000
                            THEN "returned" ELSE exc.kind

\* C24: an Error frame is handled by connect() as a socket error is: in the
\* step that receives it "disconnect" is dispatched, and connect() goes
\* towards a new attempt or closes the client; it is not left with an error
\* that none of its except clauses names.
C24_ErrorFrameIsClassified ==
    [][RecvFrame("error") =>
         /\ disconnects' = disconnects + 1
         /\ \/ cpc' \in {"connecting", "backoff", "x_close"}
            \/ cpc' = "done" /\ closed']_vars

\* C25: two calls whose routes have the same path template and differ in
\* channel_id or in server_id have different bucket-keys and refer to
\* different locks.
C25_MajorParametersSeparateBuckets ==
    \A a, b \in Req :
        (/\ route[a] # NoRoute
         /\ route[b] # NoRoute
         /\ route[a].path = route[b].path
         /\ \/ route[a].channel_id # route[b].channel_id
            \/ route[a].server_id # route[b].server_id)
        => (bucket(route[a]) # bucket(route[b]) /\ lockRef[a] # lockRef[b])

\* C25 witness: calls to /servers/{server_id} of two servers are in flight at
\* once, each holding its own lock.
C25_Witness ==
    \E a, b \in Req :
        /\ pc[a] = "http" /\ pc[b] = "http"
        /\ route[a].path = "/servers/{server_id}"
        /\ route[b].path = "/servers/{server_id}"
        /\ route[a].server_id = "S1" /\ route[b].server_id = "S2"
        /\ lockRef[a] # lockRef[b]
        /\ locked[lockRef[a]] /\ locked[lockRef[b]]

\* C26: the session is handed to the caller (it becomes Client.ws) only in the
\* step that ends the handling of the Authenticated frame, after the socket
\* was opened and the Authenticate frame sent: never on a frame of another
\* type and never on a receive that timed out.
C26_UsableOnlyAfterAcknowledgment ==
    [][ws' # ws => (cpc = "hs_beat" /\ ws' = attempts /\ sock[attempts] = "open")]_vars

\* C27: an entry whose future holds a result or an exception is no longer in
\* the pending list: the scan that completes a future removes its entry, so
\* that no later frame evaluates its predicate or completes its future again.
C27_CompletedEntryRemoved ==
    \A i \in DOMAIN dispatch_listeners : ~Done(future, dispatch_listeners[i].future)

\* C28: a receive that times out in poll_event is no error: poll_event
\* returns and connect() polls again, the socket stays open, and the session
\* keeps the heartbeat monitor it had, which has not been told to stop.
C28_TimeoutKeepsMonitor ==
    [][PollTimeout => /\ cpc' = "poll"
                      /\ sock'[attempts] = "open"
                      /\ keep_alive'[attempts] = keep_alive[attempts]
                      /\ stop_ev' = stop_ev]_vars

\* C29: once close() has started on a session (it has recorded its close
\* code) no send_heartbeat of the session's monitor runs: the heartbeat a
\* monitor has submitted is executed before any close() of its session.
C29_NoBeatAfterCloseStarted ==
    [][\A t \in Threads : ThreadBeat(t) => close_code[thrWs[t]] = 0]_vars

\* C30: a heartbeat that is not sent within the wait of the monitor stops the
\* monitor: when an interval, which is longer than that wait, passes over a
\* thread that is waiting for the heartbeat it has submitted, its stop event
\* is set at the end of it.
C30_MonitorStopsOnSendTimeout ==
    [][\A t \in Threads :
          (GwTick /\ thr[t] = "beat" /\ HeartbeatInterval >= ResultWait) => stop_ev'[t]]_vars

\* ------------------------------------------------------------------------
\* Claims C31-C40
\* ------------------------------------------------------------------------

\* C31: a listener whose future is cancelled is removed from the pending list
\* by the scan of the next frame that is received, whatever that frame is.
C31_CancelledPrunedByNextFrame ==
    [][\A frame \in Frames :
          ReceivedPayload(frame) =>
             \A i \in DOMAIN dispatch_listeners :
                future[dispatch_listeners[i].future].st = "cancelled"
                   => ~Holds(dispatch_listeners', dispatch_listeners[i].future)]_vars

\* C32: on one received frame every pending listener registered for the
\* frame's event name whose predicate holds is fulfilled by that frame, and
\* the listeners for other event names and those whose predicate is false
\* stay registered in their relative order.
C32_EveryMatchFulfilledOrderKept ==
    [][\A frame \in Frames :
          ReceivedPayload(frame) =>
             LET event_type == Lower(frame.type)
                 Matches(e) == /\ e.event = event_type
                               /\ future[e.future].st = "pending"
                               /\ Pred(e.predicate, frame) = "true"
                 Stays(e) == \/ e.event # event_type
                             \/ /\ future[e.future].st = "pending"
                                /\ Pred(e.predicate, frame) = "false"
             IN  /\ \A i \in DOMAIN dispatch_listeners :
                       Matches(dispatch_listeners[i])
                          => future'[dispatch_listeners[i].future].st = "result"
                 /\ SelectSeq(dispatch_listeners', Stays)
                       = SelectSeq(dispatch_listeners, Stays)]_vars

C34_CloseOrderAndCode ==
    [][/\ \A s \in Sessions :
            close_code'[s] # close_code[s]
               => /\ keep_alive'[s] = 0
                  /\ keep_alive[s] # 0 => stop_ev'[keep_alive[s]]
                  /\ sock'[s] # "open"
       /\ \A t \in Threads : ThreadCloseDone(t) => close_code[thrWs[t]] = 4000
       /\ UserCloseDone => close_code[uTarget] = 1000
       /\ HandlerCloseDone => close_code[xTarget] = 1000
       /\ (PollMeetsClosure /\ close_code[attempts] # 0)
             => ClosureCode = close_code[attempts]]_vars

\* C35: with msgpack and without it, the URL from_client opens the socket to
\* is the gateway URL of the capability info followed by the format query,
\* "?format=msgpack" or "?format=json", and by nothing else.
C35_UrlIsGatewayUrlWithFormat ==
    url # NoUrl =>
       url = info_ws \o <<"?format=">> \o <<IF use_msgpack THEN "msgpack" ELSE "json">>

\* C36: whenever the gate is closed it is open again later, and a call that
\* waits on the gate does not wait for ever.
C36_GateReopens ==
    /\ (~global_over) ~> global_over
    /\ \A r \in Req : (pc[r] = "gate") ~> (pc[r] # "gate")

\* C37: the gate is not open while a call is still in the sleep of a global
\* 429 with some of its retry_after left: with global delays that overlap it
\* stays closed until the later one is over.
C37_GateClosedWhileGlobalDelayRuns ==
    global_over =>
       \A r \in Req :
          ~(pc[r] = "sleep" /\ sleepKind[r] = "429" /\ is_global[r] /\ left[r] > 0)

\* a KeepAliveHandler thread that has been started and has neither ended nor
\* been told to stop
Running(t) == thr[t] \notin {"none", "created"} /\ ~stop_ev[t]

\* C38: of the heartbeat monitors made for one session at most one is running
\* at any time, whatever frames the session receives.
C38_AtMostOneMonitorPerSession ==
    \A s \in Sessions : Cardinality({t \in Threads : Running(t) /\ thrWs[t] = s}) <= 1

\* C40: when connect() has opened the socket of a new session, every
\* heartbeat monitor made for an earlier session has ended or been told to
\* stop, whatever ended that session.
C40_OldMonitorStoppedBeforeNewSession ==
    [][ConnectOk => \A t \in Threads : Alive(t) => stop_ev[t]]_vars

\* C39: Client.close() called while connect(reconnect=True) is running and
\* its session's socket is open closes that socket with code 1000: the call
\* records the code 1000 on the session and starts to close its socket.
C39_CloseClosesRunningSession ==
    [][( /\ UserClose
         /\ reconnect /\ ~closed
         /\ cpc \notin {"idle", "done"}
         /\ sock[attempts] = "open" )
          => /\ close_code'[attempts] = 1000
             /\ sock'[attempts] # "open"]_vars

====
